---- MODULE Spec2Model ----
(***************************************************************************)
(* Genesis pipeline controller (src/genesis.py), its reasoning engine      *)
(* (src/reasoning.py), symbolic solver (src/math_reasoner.py) and          *)
(* uncertainty detector (src/uncertainty_detector.py) as a state machine.  *)
(*                                                                         *)
(* Conventions                                                             *)
(*   - a question id "q<n>" is the integer n; 0 stands for None;           *)
(*   - an optional number is a sequence: <<>> is None, <<v>> is v;         *)
(*   - a prompt is a record of what the code's string tests see in it:     *)
(*     words (the keywords and regex matches found in the lowercased       *)
(*     text), nums (the numeric literals the solver's regexes extract);    *)
(*   - a text is [author, body]; body "" is the empty string and           *)
(*     NoText is Python's None;                                            *)
(*   - confidences are in hundredths (0.6 is 60).                          *)
(***************************************************************************)
EXTENDS Integers, Sequences, FiniteSets, TLC

\* Number of user inputs of one session that are explored.
MaxInputs == 2

\* Number of feedback directives explored after one answered prompt.
MaxFeedback == 11

\* Number of WebSearch.search calls explored, and the last clock value.
MaxSearches == 2
MaxClock == 1400
max_conversations == 9
MaxAdds == 9
MaxPrunes == 2
session_size == 11
MaxInteractions == 12
MaxWithMetadata == 1
MaxManagers == 2
MaxRequests == 2
MaxDepth == 4
MaxWrites == 3
MaxCrashes == 1
MaxTicks == 1
MaxStarts == 2
MaxReads == 1
MaxQueries == 2
MaxTokens == 5
MaxDirectives == 1

NoneV == <<>>
Some(v) == <<v>>
NoText == [author |-> "none", body |-> ""]
Text(a, b) == [author |-> a, body |-> b]

\* Python truthiness of an optional string: None and "" are falsy.
Falsy(t) == t = NoText \/ t.body = ""

\* Python truthiness of an optional number: None, 0 and 0.0 are falsy.
TruthyNum(o) == o # NoneV /\ o[1] # 0

\* a or b
PyOr(a, b) == IF TruthyNum(a) THEN a ELSE b

Min(a, b) == IF a < b THEN a ELSE b
Max(a, b) == IF a > b THEN a ELSE b

----------------------------------------------------------------------------
(* Keyword tables, verbatim from the source.                               *)

retry_patterns == {"try again", "recalculate", "retry", "redo that", "do that again"}

temporal_keywords ==
  {"latest", "newest", "recent", "recently", "current", "currently",
   "now", "today", "this year", "2025", "2024", "emerging",
   "new", "just", "most recent", "up-to-date", "trending",
   "breaking", "modern", "contemporary", "present"}

web_research_keywords ==
  {"latest", "2025", "2024", "published", "papers", "studies",
   "advancements", "research", "published in", "recent", "news",
   "current", "today", "this year", "breakthrough", "development"}

time_sensitive_cues == {"who is", "what is", "president", "currently", "right now"}

identity_triggers ==
  {"who are you", "identify yourself", "what are you", "genesis identify",
   "tell me about yourself", "who is genesis", "what is genesis"}

metacognitive_keywords ==
  {"#incorrect", "#correct", "limitation", "how do you", "what can you",
   "explain yourself", "retry", "try again"}

math_word_problem_keywords ==
  {"if", "how many", "how much", "calculate", "total", "rate", "per", "cost",
   "all but", "machines?.*package", "required", "needs? to"}

logic_problem_keywords == {"implies", "if.*then", "therefore", "because", "consequently"}

programming_keywords == {"write", "function", "code", "implement", "algorithm"}

design_keywords == {"design", "architect", "structure", "system", "plan"}

----------------------------------------------------------------------------
(* The prompts explored.  words lists every keyword of the tables above    *)
(* and of the solver's triggers that occurs in the lowercased text;        *)
(* "rate_pattern" records a match of (\d+)\s+(machines?|cats?|workers?|    *)
(* people) and "total_match" one of (?:had|has)\s+(\d+).  fpErr is         *)
(* |verify - target| of the solver's substitution check, in hundredths,    *)
(* as IEEE doubles produce it for the literal numbers of the text.         *)

Prompt(t, w, n, e) == [text |-> t, words |-> w, nums |-> n, fpErr |-> e]

\* "If 5 machines make 5 widgets in 5 minutes, how many machines for 100 widgets in 100 minutes?"
pRate == Prompt("rate", {"if", "how many", "rate_pattern"}, <<5, 5, 5, 100, 100>>, 0)
\* "If 3 cats catch 3 mice in 3 minutes, how many cats are needed today for 100 mice in 100 minutes?"
pRateToday == Prompt("rate_today", {"today", "if", "how many", "rate_pattern"}, <<3, 3, 3, 100, 100>>, 0)
\* "If 48 machines make 33 widgets in 9 minutes, how many machines for 80900196304912490
\* widgets in 14 minutes?"  The 17-digit literal is abbreviated to 809001; in doubles
\* workers * rate * time is 8.090019630491248e16, ten units away from the target.
pRateBig == Prompt("rate_big", {"if", "how many", "rate_pattern"}, <<48, 33, 9, 809001, 14>>, 1000)
\* "A farmer had 5 sheep; all but 0 died. How many are left?"
pAllButZero == Prompt("allbut_zero", {"all but", "how many", "total_match"}, <<5, 0>>, 0)
\* "A bat and a ball cost $1.10. The bat costs $1.00 more than the ball. How much does
\* the ball cost?"  (amounts in cents)
pBatBall == Prompt("batball", {"cost", "more than", "how much"}, <<110, 100>>, 0)
\* "$15,000 increases by 18%, then decreases by 12%, then increases by 25%. Final value
\* and total change?"  (initial value, then signed percentages)
pCompound == Prompt("compound", {"%", "increase", "decrease", "total"}, <<15000, 18, -12, 25>>, 0)
\* "3 switches control 3 bulbs in another room and you may enter once. How many trips
\* are required?"
pSwitch == Prompt("switch", {"switch", "bulb", "once", "how many", "required"}, <<3, 3>>, 0)
\* "Explain Python decorators"
pDecorators == Prompt("decorators", {}, <<>>, 0)
\* "Who is the president of the United States right now?"
pPresident == Prompt("president", {"now", "who is", "president", "right now"}, <<>>, 0)
\* "try again"
pTryAgain == Prompt("try again", {"try again", "gain"}, <<>>, 0)
\* "ls"
pLs == Prompt("ls", {}, <<>>, 0)
\* "#assist"
pAssist == Prompt("#assist", {}, <<>>, 0)
\* "#correct"
pCorrect == Prompt("#correct", {"#correct"}, <<>>, 0)
\* "#incorrect"
pIncorrect == Prompt("#incorrect", {"#incorrect"}, <<>>, 0)
\* "#incorrect - try again"
pIncorrectRetry ==
  Prompt("#incorrect - try again", {"#incorrect", "try again", "gain"}, <<>>, 0)

Catalog ==
  {pRate, pRateToday, pRateBig, pAllButZero, pBatBall, pCompound, pSwitch,
   pDecorators, pPresident, pTryAgain, pLs, pAssist, pCorrect, pIncorrect,
   pIncorrectRetry}

PromptOf(t) == CHOOSE p \in Catalog : p.text = t

\* "What is 2 + 2?"
pTwoPlusTwo == Prompt("what is 2 + 2", {"what is"}, <<2, 2>>, 0)

\* "What is the latest AI breakthrough?"
pLatestAI == Prompt("latest_ai", {"what is", "latest", "breakthrough"}, <<>>, 0)

\* "What are emerging AI safety researchers in 2025?"
pEmerging == Prompt("emerging_2025", {"emerging", "2025", "research"}, <<2025>>, 0)

\* the queries of test_temporal_query_detection and the prompts of the
\* pipeline
ClassifierQueries == Catalog \cup {pTwoPlusTwo, pLatestAI, pEmerging}

----------------------------------------------------------------------------
(* src/math_reasoner.py: the symbolic solver.  A solution is the dict the  *)
(* solver returns: keys is its key set, the other fields its values.       *)

Sol(shape, keys, answer, smaller, verified) ==
  [shape |-> shape, keys |-> keys, answer |-> answer,
   smaller_item |-> smaller, verified |-> verified]

\* detect_and_solve returned None
NoSol == Sol("none", {}, 0, 0, FALSE)

\* dict.get(key): None when the key is absent
Get(sol, key) ==
  IF key \notin sol.keys THEN NoneV
  ELSE IF key = "answer" THEN Some(sol.answer)
  ELSE IF key = "smaller_item" THEN Some(sol.smaller_item)
  ELSE NoneV

\* the substitution check abs(verify - target) < 0.01
WithinTolerance(p) == p.fpErr < 1

\* workers_needed = (target_units / target_time) / (units / (workers * time))
\* (integer part; a zero divisor raises and is outside the prompts explored)
solve_rate_problem(p) ==
  LET initial_workers == p.nums[1]
      initial_units   == p.nums[2]
      initial_time    == p.nums[3]
      target_units    == p.nums[4]
      target_time     == p.nums[5]
      workers_needed  == (target_units * initial_workers * initial_time)
                           \div (target_time * initial_units)
  IN Sol("rate", {"steps", "answer", "verified"}, workers_needed, 0, WithinTolerance(p))

\* smaller_value = (total - difference) / 2
solve_difference_problem(p) ==
  LET total      == p.nums[1]
      difference == p.nums[2]
  IN Sol("difference", {"steps", "smaller_item", "larger_item", "verified"},
         0, (total - difference) \div 2, WithinTolerance(p))

\* 'all but X' means X remain; 0 when no number follows "all but"
solve_logical_interpretation(p) ==
  LET remaining == IF Len(p.nums) >= 2 THEN p.nums[2] ELSE 0
  IN Sol("all_but", {"steps", "answer", "verified"}, remaining, 0, TRUE)

\* the dict carries final_value and total_change_percentage, no answer key
solve_compound_percentage(p) ==
  Sol("compound", {"steps", "final_value", "total_change_percentage", "verified"},
      0, 0, TRUE)

\* the dict carries the procedure under the key solution, no answer key
solve_multi_step_puzzle(p) ==
  Sol("light_switch", {"steps", "solution", "verified"}, 0, 0, TRUE)

detect_and_solve(p) ==
  IF /\ ("%" \in p.words \/ "percent" \in p.words)
     /\ p.words \cap {"increase", "decrease", "grows", "shrinks", "gain", "loss"} # {}
     /\ Len(p.nums) >= 2
  THEN solve_compound_percentage(p)
  ELSE IF "rate_pattern" \in p.words /\ Len(p.nums) >= 5
  THEN solve_rate_problem(p)
  ELSE IF "cost" \in p.words /\ "more than" \in p.words /\ Len(p.nums) >= 2
  THEN solve_difference_problem(p)
  ELSE IF "all but" \in p.words /\ "total_match" \in p.words
  THEN solve_logical_interpretation(p)
  ELSE IF /\ "switch" \in p.words /\ "bulb" \in p.words
          /\ p.words \cap {"one time", "one trip", "once", "figure out"} # {}
  THEN solve_multi_step_puzzle(p)
  ELSE NoSol

----------------------------------------------------------------------------
(* src/reasoning.py: the reasoning engine.                                 *)

NoTrace == [problem_type |-> "none", solved |-> FALSE]

ReasoningInit ==
  [current_question_id |-> 0, last_math_answer |-> NoneV,
   last_math_solution |-> NoSol, current_trace |-> NoTrace]

\* start_new_question that records the id but keeps the stored answer
start_new_question_keeps_answer(eng, question_id) ==
  [eng EXCEPT !.current_question_id = question_id]

\* start_new_question that clears without comparing the ids
start_new_question_always_clears(eng, question_id) ==
  [eng EXCEPT !.last_math_answer = NoneV,
              !.last_math_solution = NoSol,
              !.current_question_id = question_id,
              !.current_trace = NoTrace]

start_new_question(eng, question_id) ==
  IF eng.current_question_id # question_id
  THEN [eng EXCEPT !.last_math_answer = NoneV,
                   !.last_math_solution = NoSol,
                   !.current_question_id = question_id,
                   !.current_trace = NoTrace]
  ELSE eng

classify_query(p) ==
  LET temporal_score == Cardinality(p.words \cap temporal_keywords)
      web_score      == Cardinality(p.words \cap web_research_keywords)
      time_sensitive == temporal_score > 0 \/ p.words \cap time_sensitive_cues # {}
  IN [time_sensitive |-> time_sensitive,
      temporal_score |-> temporal_score,
      needs_live_data |-> (time_sensitive \/ web_score >= 2)]

\* detect_temporal_uncertainty that asks for the fallback only when the
\* query is time-sensitive and the clock is past the knowledge cutoff
detect_temporal_uncertainty_cutoff_only(p, is_post_cutoff) ==
  LET metadata == classify_query(p)
      temporal_uncertain == metadata.time_sensitive /\ is_post_cutoff
  IN [time_sensitive |-> metadata.time_sensitive,
      needs_live_data |-> metadata.needs_live_data,
      temporal_uncertain |-> temporal_uncertain,
      should_trigger_fallback |-> temporal_uncertain]

detect_temporal_uncertainty(p, is_post_cutoff) ==
  LET metadata == classify_query(p)
      temporal_uncertain == metadata.time_sensitive /\ is_post_cutoff
  IN [time_sensitive |-> metadata.time_sensitive,
      needs_live_data |-> metadata.needs_live_data,
      temporal_uncertain |-> temporal_uncertain,
      should_trigger_fallback |-> (temporal_uncertain \/ metadata.needs_live_data)]

detect_problem_type(p) ==
  IF p.words \cap metacognitive_keywords # {} THEN "metacognitive"
  ELSE IF p.words \cap math_word_problem_keywords # {} THEN "math_word_problem"
  ELSE IF p.words \cap logic_problem_keywords # {} THEN "logic_problem"
  ELSE IF p.words \cap programming_keywords # {} THEN "programming"
  ELSE IF p.words \cap design_keywords # {} THEN "design"
  ELSE "general"

\* _reason_math_problem: the stored answer is
\* solution.get('answer') or solution.get('smaller_item')
reason_math_problem(eng, p) ==
  LET solution == detect_and_solve(p)
  IN IF solution # NoSol /\ "steps" \in solution.keys
     THEN [eng EXCEPT !.last_math_answer =
                         PyOr(Get(solution, "answer"), Get(solution, "smaller_item")),
                      !.last_math_solution = solution,
                      !.current_trace = [problem_type |-> "math_word_problem", solved |-> TRUE]]
     ELSE [eng EXCEPT !.last_math_answer = NoneV,
                      !.current_trace = [problem_type |-> "math_word_problem", solved |-> FALSE]]

generate_reasoning_trace(eng, p, problem_type) ==
  IF problem_type = "math_word_problem"
  THEN reason_math_problem(eng, p)
  ELSE [eng EXCEPT !.current_trace = [problem_type |-> problem_type, solved |-> FALSE]]

\* The formatted answer: <<>> for None, else <<[fmt, val]>>.
get_calculated_answer(eng) ==
  IF eng.last_math_answer # NoneV
  THEN IF eng.last_math_solution # NoSol /\ "solution" \in eng.last_math_solution.keys
       THEN Some([fmt |-> "procedure", val |-> 0])
       ELSE IF eng.last_math_solution # NoSol /\ "smaller_item" \in eng.last_math_solution.keys
       THEN Some([fmt |-> "money", val |-> eng.last_math_solution.smaller_item])
       ELSE Some([fmt |-> "str", val |-> eng.last_math_answer[1]])
  ELSE NoneV

----------------------------------------------------------------------------
(* src/uncertainty_detector.py.  A response body stands for a literal      *)
(* string; Features gives what analyze_response finds in that string.      *)

\* bodies made of whitespace only: " ", "   ", a newline, newline-tab-space
WhitespaceBodies == {" ", "   ", "\n", "\n\t "}

\* str.strip() of a body of this model
strip(body) == IF body \in WhitespaceBodies THEN "" ELSE body

Feat(k, short, rep, err, code) ==
  [uncertain_match_count |-> k, is_too_short |-> short,
   has_excessive_repetition |-> rep, has_error_indicators |-> err,
   code_quality_issues |-> code]

Features(body) ==
  CASE body = "llm_answer"    -> Feat(0, FALSE, FALSE, FALSE, FALSE)
         \* "A decorator wraps a function and returns a new callable."
    [] body = "llm_hedged"    -> Feat(1, FALSE, FALSE, FALSE, FALSE)
         \* "I'm not sure which decorator the question refers to."
    [] body = "warn_no_response" -> Feat(0, FALSE, FALSE, TRUE, FALSE)
         \* "(warning sign) No response from model", 24 characters
    [] body = "warn_timeout"  -> Feat(0, FALSE, FALSE, TRUE, FALSE)
         \* "(warning sign) LLM timeout - try a shorter prompt"
    [] body = "warn_not_found" -> Feat(0, FALSE, FALSE, TRUE, FALSE)
         \* "(warning sign) LLM binary not found at ./llama.cpp/llama-cli"
    [] body = "warn_error"    -> Feat(0, TRUE, FALSE, TRUE, FALSE)
         \* "(warning sign) LLM error: boom", 17 characters
    [] body = "hedged_twice"  -> Feat(2, FALSE, FALSE, FALSE, FALSE)
         \* "I'm not sure about that, but maybe it could work."
    [] body = "short_yes"     -> Feat(0, TRUE, FALSE, FALSE, FALSE)
         \* "Yes."
    [] body = "short_maybe"   -> Feat(1, TRUE, FALSE, FALSE, FALSE)
         \* "Maybe."
    [] body = "code_todo"     -> Feat(0, FALSE, FALSE, FALSE, TRUE)
         \* "Here's the code:" and a python block holding "..." and "pass"
    [] body = "repetitive"    -> Feat(0, FALSE, TRUE, FALSE, FALSE)
         \* "the answer is the answer is the answer is the answer is the answer"
    [] body = "hedged_repetitive" -> Feat(6, FALSE, TRUE, FALSE, FALSE)
         \* "maybe maybe maybe maybe maybe maybe it works"
    [] body \in WhitespaceBodies -> Feat(0, TRUE, FALSE, FALSE, FALSE)
         \* stripped to 0 characters
    [] OTHER                  -> Feat(0, FALSE, FALSE, FALSE, FALSE)

FallbackThreshold == 60

calculate_confidence_score(f) ==
  LET has_uncertain_language == f.uncertain_match_count > 0
      d1 == IF has_uncertain_language
            THEN Min(40 + f.uncertain_match_count * 10, 60) ELSE 0
      d2 == IF f.is_too_short THEN 40 ELSE 0
      d3 == IF f.has_excessive_repetition THEN 30 ELSE 0
      d4 == IF f.has_error_indicators THEN 40 ELSE 0
      d5 == IF f.code_quality_issues THEN 30 ELSE 0
  IN Max(0, Min(100, 100 - d1 - d2 - d3 - d4 - d5))

\* analyze_response that tests "not response" only
analyze_response_no_strip(response) ==
  IF Falsy(response)
  THEN [confidence_score |-> 0, reason |-> "empty_response"]
  ELSE [confidence_score |-> calculate_confidence_score(Features(response.body)),
        reason |-> "scored"]

analyze_response(response) ==
  IF Falsy(response) \/ strip(response.body) = ""
  THEN [confidence_score |-> 0, reason |-> "empty_response"]
  ELSE [confidence_score |-> calculate_confidence_score(Features(response.body)),
        reason |-> "scored"]

\* should_trigger_fallback(response, override_threshold)
should_trigger_fallback_override(response, override_threshold) ==
  LET analysis == analyze_response(response)
      threshold == IF override_threshold # NoneV THEN override_threshold[1]
                   ELSE FallbackThreshold
  IN [should_fallback |-> analysis.confidence_score < threshold,
      confidence_score |-> analysis.confidence_score]

\* should_trigger_fallback(response), as process_input calls it
should_trigger_fallback(response) == should_trigger_fallback_override(response, NoneV)

\* The calls of the detector that are explored.
DetectorResponses ==
  {NoText, Text("local", "")}
  \cup {Text("local", b) : b \in WhitespaceBodies}
  \cup {Text("local", b) : b \in {"llm_answer", "llm_hedged", "hedged_twice", "short_yes",
                                  "short_maybe", "code_todo", "repetitive",
                                  "hedged_repetitive", "warn_no_response",
                                  "warn_timeout", "warn_not_found", "warn_error"}}

DetectorThresholds == {NoneV, Some(0), Some(50), Some(60), Some(70), Some(100)}

DetectorCall(response, override_threshold) ==
  [response |-> response, override_threshold |-> override_threshold]

NoDetectorResult == [done |-> FALSE, should_fallback |-> FALSE, confidence_score |-> 0]

----------------------------------------------------------------------------
(* src/genesis.py: helpers of the pipeline controller.                     *)

\* what the child process did: stdout text, empty stdout, timeout, missing
\* binary, any other exception
LlmOutcomes ==
  {"stdout_answer", "stdout_hedged", "stdout_empty", "timeout",
   "file_not_found", "exception"}

\* call_llm never raises: every failure becomes a warning string
call_llm(outcome) ==
  CASE outcome = "stdout_answer"  -> Text("local", "llm_answer")
    [] outcome = "stdout_hedged"  -> Text("local", "llm_hedged")
    [] outcome = "stdout_empty"   -> Text("local", "warn_no_response")
    [] outcome = "timeout"        -> Text("local", "warn_timeout")
    [] outcome = "file_not_found" -> Text("local", "warn_not_found")
    [] outcome = "exception"      -> Text("local", "warn_error")

LlmFailed(outcome) == outcome \in {"stdout_empty", "timeout", "file_not_found", "exception"}

IsRetry(p) == p.words \cap retry_patterns # {}

ControlDirectives ==
  {"#exit", "#reset", "#help", "#stats", "#pwd", "#bridge", "#assist",
   "#assist-stats", "#performance", "#feedback", "#context",
   "#reset_metrics", "#memory", "#prune_memory", "#export_memory"}

IsControlDirective(p) == p.text \in ControlDirectives

handle_direct_command(p) ==
  IF p.words \cap identity_triggers # {}
  THEN [handled |-> TRUE, result |-> Text("direct", "identity")]
  ELSE IF p.text \in {"ls", "list files", "show files", "list directory"}
  THEN [handled |-> TRUE, result |-> Text("direct", "listing")]
  ELSE IF p.text \in {"pwd", "current directory", "where am i"}
  THEN [handled |-> TRUE, result |-> Text("direct", "cwd")]
  ELSE [handled |-> FALSE, result |-> Text("direct", "")]

\* src/memory.py MemoryManager.add_interaction
MaxConversations == 20

add_interaction(mem, user, assistant, uncertain) ==
  LET appended == Append(mem, [user |-> user, assistant |-> assistant,
                               uncertain |-> uncertain])
  IN IF Len(appended) > MaxConversations
     THEN SubSeq(appended, Len(appended) - MaxConversations + 1, Len(appended))
     ELSE appended

\* WebSearch.search as the controller sees it: an exception, or
\* (success, answer, confidence); the answer of a success is never empty.
WsOutcomes ==
  {[raised |-> TRUE,  success |-> FALSE, confidence |-> 0],
   [raised |-> FALSE, success |-> FALSE, confidence |-> 0],
   [raised |-> FALSE, success |-> TRUE,  confidence |-> 40],
   [raised |-> FALSE, success |-> TRUE,  confidence |-> 50],
   [raised |-> FALSE, success |-> TRUE,  confidence |-> 90]}

WsThreshold == 50

\* GenesisTools.ask_perplexity: (success, stdout.strip()) or (False, message)
PxOutcomes ==
  {[success |-> FALSE, body |-> "Perplexity CLI not installed"],
   [success |-> TRUE,  body |-> ""],
   [success |-> TRUE,  body |-> "perplexity_text"]}

\* ClaudeFallback.request_claude_assist: None, or the text of the reply
ClaudeOutcomes == {NoText, Text("claude", ""), Text("claude", "claude_text")}

----------------------------------------------------------------------------
(* src/feedback_manager.py: the feedback ledger.  base_confidence is kept  *)
(* in millionths (0.60 is 600000); the update rounds to the nearest        *)
(* millionth where the code rounds to the nearest double.                  *)

LedgerSources == {"websearch", "perplexity", "claude", "local"}

Weights(base, success, total) ==
  [base_confidence |-> base, success_count |-> success, total_count |-> total]

default_weights ==
  [src \in LedgerSources |->
     CASE src = "websearch"  -> Weights(700000, 0, 0)
       [] src = "perplexity" -> Weights(750000, 0, 0)
       [] src = "claude"     -> Weights(850000, 0, 0)
       [] src = "local"      -> Weights(600000, 0, 0)]

\* a / b rounded to the nearest integer, b > 0
RoundDiv(a, b) == IF a >= 0 THEN (2 * a + b) \div (2 * b) ELSE -((2 * (-a) + b) \div (2 * b))

\* learning_rate = 0.05 is 1/20
LearningRateInv == 20
TargetCorrect == 900000
TargetIncorrect == 500000
ClampLow == 400000
ClampHigh == 950000

\* _update_source_weights that counts the total only for incorrect feedback
update_source_weights_miscounted(sw, source, is_correct) ==
  IF source \notin DOMAIN sw THEN sw
  ELSE LET w == sw[source]
           target == IF is_correct THEN TargetCorrect ELSE TargetIncorrect
           adjustment == RoundDiv(target - w.base_confidence, LearningRateInv)
       IN [sw EXCEPT ![source] =
             Weights(Max(ClampLow, Min(ClampHigh, w.base_confidence + adjustment)),
                     IF is_correct THEN w.success_count + 1 ELSE w.success_count,
                     IF is_correct THEN w.total_count ELSE w.total_count + 1)]

update_source_weights(sw, source, is_correct) ==
  IF source \notin DOMAIN sw THEN sw
  ELSE LET w == sw[source]
           target == IF is_correct THEN TargetCorrect ELSE TargetIncorrect
           adjustment == RoundDiv(target - w.base_confidence, LearningRateInv)
       IN [sw EXCEPT ![source] =
             Weights(Max(ClampLow, Min(ClampHigh, w.base_confidence + adjustment)),
                     IF is_correct THEN w.success_count + 1 ELSE w.success_count,
                     w.total_count + 1)]

\* add_feedback as far as the ledger is concerned
add_feedback(sw, source, is_correct) == update_source_weights(sw, source, is_correct)

----------------------------------------------------------------------------
(* src/websearch.py: the cache and the aggregate search.  Confidences are  *)
(* in hundredths, times in seconds.  A synthesized answer is the sequence  *)
(* of <<source, results shown>> groups in the order the sources completed. *)

SourceNames == <<"DuckDuckGo", "Wikipedia", "ArXiv">>

\* ttl_minutes * 60 with the default of 15 minutes
TtlSeconds == 900

\* default of the min_confidence parameter of search
MinConfidence == 70

NoEntry == [present |-> FALSE, answer |-> <<>>, confidence |-> 0, mtime |-> 0]

\* WebSearchCache.get that never finds an entry
cache_get_always_miss(cache, query, now) ==
  [hit |-> FALSE, entry |-> NoEntry, cache |-> cache]

\* WebSearchCache.get: the entry if present and not older than the TTL; a
\* stale entry is removed
cache_get(cache, query, now) ==
  IF ~cache[query].present
  THEN [hit |-> FALSE, entry |-> NoEntry, cache |-> cache]
  ELSE IF now - cache[query].mtime > TtlSeconds
  THEN [hit |-> FALSE, entry |-> NoEntry, cache |-> [cache EXCEPT ![query] = NoEntry]]
  ELSE [hit |-> TRUE, entry |-> cache[query], cache |-> cache]

\* WebSearchCache.set
cache_set(cache, query, answer, confidence, now) ==
  [cache EXCEPT ![query] = [present |-> TRUE, answer |-> answer,
                            confidence |-> confidence, mtime |-> now]]

\* What one source does in one search: it returns (True, n results), it
\* returns (False, []), its future raises, or it is still running when the
\* overall deadline of as_completed expires.
Returned(n) == [kind |-> "results", n |-> n]
Failed == [kind |-> "failed", n |-> 0]
Raised == [kind |-> "raised", n |-> 0]
Late == [kind |-> "late", n |-> 0]

\* a scenario: the outcome of each source (indexed as SourceNames) and the
\* order in which the futures complete
Scenario(d, w, a, order) == [outcome |-> <<d, w, a>>, order |-> order]

Scenarios ==
  {Scenario(Returned(5), Returned(3), Returned(3), <<1, 2, 3>>),
   Scenario(Returned(5), Returned(3), Returned(3), <<3, 2, 1>>),
   Scenario(Returned(1), Returned(3), Returned(3), <<1, 2, 3>>),
   Scenario(Returned(5), Returned(3), Failed, <<1, 2, 3>>),
   Scenario(Returned(5), Raised, Returned(3), <<2, 1, 3>>),
   Scenario(Returned(0), Failed, Returned(0), <<1, 2, 3>>),
   Scenario(Returned(5), Returned(3), Late, <<1, 2, 3>>)}

RECURSIVE SumSeq(_)
SumSeq(q) == IF q = <<>> THEN 0 ELSE q[1] + SumSeq(Tail(q))

\* the sources whose future gave "success and results", in completion order
SuccessfulSources(sc) ==
  SelectSeq(sc.order, LAMBDA i : sc.outcome[i].kind = "results" /\ sc.outcome[i].n > 0)

\* _synthesize_results: groups of at most 3 results per source, and
\* min(1, n/10) * min(1, sources/3)
synthesize_results(sc) ==
  LET ok == SuccessfulSources(sc)
      n_results == SumSeq([k \in 1..Len(ok) |-> sc.outcome[ok[k]].n])
  IN [answer |-> [k \in 1..Len(ok) |->
                    <<SourceNames[ok[k]], Min(sc.outcome[ok[k]].n, 3)>>],
      confidence |-> (Min(10, n_results) * 10 * Min(3, Len(ok))) \div 3]

SearchResult(raised, success, answer, confidence, requests) ==
  [raised |-> raised, success |-> success, answer |-> answer,
   confidence |-> confidence, requests |-> requests]

\* WebSearch.search(query, use_cache): the cache afterwards and what the
\* caller gets; requests is the number of source searches submitted
search(cache, now, query, use_cache, sc) ==
  LET got == IF use_cache THEN cache_get(cache, query, now)
             ELSE [hit |-> FALSE, entry |-> NoEntry, cache |-> cache]
      syn == synthesize_results(sc)
  IN IF got.hit
     THEN [cache |-> got.cache,
           result |-> SearchResult(FALSE, TRUE, got.entry.answer, got.entry.confidence, 0)]
     ELSE IF \E i \in 1..3 : sc.outcome[i].kind = "late"
     THEN [cache |-> got.cache,
           result |-> SearchResult(TRUE, FALSE, <<>>, 0, 3)]
     ELSE IF SuccessfulSources(sc) = <<>>
     THEN [cache |-> got.cache,
           result |-> SearchResult(FALSE, FALSE, <<>>, 0, 3)]
     ELSE [cache |-> IF syn.confidence >= MinConfidence
                     THEN cache_set(got.cache, query, syn.answer, syn.confidence, now)
                     ELSE got.cache,
           result |-> SearchResult(FALSE, TRUE, syn.answer, syn.confidence, 3)]

Queries == {"query_a", "query_b"}

\* the clock advances by half a TTL, or a second more
ClockSteps == {450, 451}

----------------------------------------------------------------------------
(* src/learning_memory.py: the long-term conversation pool.  A             *)
(* conversation is what _prune_conversations reads of it; scores are in    *)
(* hundredths.  max_conversations stands for the constructor argument of   *)
(* the same name, prune_threshold 0.8 and the kept share 0.7 are in tenths.*)

max_age_days == 90

PruneThresholdTenths == 8

KeepTenths == 7

LearningLogCap == 500

ConversationKinds == {"short", "fallback"}

\* the conversation add_conversation builds; process_input never passes
\* "feedback" or "error" in the metadata
Conversation(id, kind) ==
  [id |-> id, age_days |-> 0,
   response_len |-> 40,
   feedback_correct |-> FALSE,
   had_fallback |-> kind = "fallback",
   error |-> FALSE]

score(conv) ==
    (IF conv.age_days < max_age_days
     THEN ((max_age_days - conv.age_days) * 1000) \div max_age_days ELSE 0)
  + (IF conv.response_len > 100 THEN Min(conv.response_len, 500) ELSE 0)
  + (IF conv.feedback_correct THEN 500 ELSE 0)
  + (IF conv.had_fallback THEN 300 ELSE 0)
  - (IF conv.error THEN 200 ELSE 0)

RECURSIVE InsertByScore(_, _)
InsertByScore(sorted, conv) ==
  IF sorted = <<>> THEN <<conv>>
  ELSE IF score(Head(sorted)) >= score(conv)
       THEN <<Head(sorted)>> \o InsertByScore(Tail(sorted), conv)
       ELSE <<conv>> \o sorted

\* scored.sort(reverse=True, key=score): descending and stable
RECURSIVE sort_by_score(_)
sort_by_score(convs) ==
  IF convs = <<>> THEN <<>>
  ELSE InsertByScore(sort_by_score(SubSeq(convs, 1, Len(convs) - 1)),
                     convs[Len(convs)])

target_count == (max_conversations * KeepTenths) \div 10

prune_conversations_keeps_all(convs) == sort_by_score(convs)

\* the pool _prune_conversations installs
prune_conversations(convs) ==
  LET scored == sort_by_score(convs) IN
  SubSeq(scored, 1, Min(target_count, Len(scored)))

\* len(conversations) >= max_conversations * prune_threshold
NeedsPrune(count) == count * 10 >= max_conversations * PruneThresholdTenths

PruningEntry(old_count, new_count) ==
  [type |-> "memory_pruning", pruned |-> old_count - new_count,
   old_count |-> old_count, new_count |-> new_count]

\* the entry add_feedback_note appends to the learning log
FeedbackNoteEntry(is_correct) == [type |-> "feedback_note", is_correct |-> is_correct]

\* threading.Lock.acquire: the lock of __init__ (line 49) has no owner and
\* is not reentrant, so acquiring it while it is held waits until it is
\* released, also when the holder is the calling thread
acquire(locked) == IF locked THEN "blocks" ELSE "acquired"

add_learning_entry(entries, entry) ==
  LET appended == Append(entries, entry) IN
  IF Len(appended) > LearningLogCap
  THEN SubSeq(appended, Len(appended) - LearningLogCap + 1, Len(appended))
  ELSE appended

----------------------------------------------------------------------------
(* src/context_manager.py: the session ring and its file.  A Python value  *)
(* is [t, v]: its type and its repr; a JSON value is [k, text]: the kind   *)
(* of token json.dump writes and its text.  session_size stands for the    *)
(* constructor argument of the same name.                                  *)

RehydrateCount == 10

AutoSaveEvery == 5

PyStr(text) == [t |-> "str", v |-> text]

PyInt(n) == [t |-> "int", v |-> ToString(n)]

PyFloat(repr) == [t |-> "float", v |-> repr]

PyBool(b) == [t |-> "bool", v |-> IF b THEN "True" ELSE "False"]

PyNone == [t |-> "NoneType", v |-> "None"]

\* json.dump of a leaf
json_encode(value) ==
  CASE value.t = "str" -> [k |-> "string", text |-> value.v]
    [] value.t = "int" -> [k |-> "number", text |-> value.v]
    [] value.t = "float" -> [k |-> "number", text |-> value.v]
    [] value.t = "bool" -> [k |-> IF value.v = "True" THEN "true" ELSE "false",
                            text |-> ""]
    [] OTHER -> [k |-> "null", text |-> ""]

FloatTexts == {"0.9", "0.75"}

\* json.load of a token: a number token with a fraction is a float
json_decode(token) ==
  CASE token.k = "string" -> [t |-> "str", v |-> token.text]
    [] token.k = "number" ->
         [t |-> IF token.text \in FloatTexts THEN "float" ELSE "int",
          v |-> token.text]
    [] token.k = "true" -> [t |-> "bool", v |-> "True"]
    [] token.k = "false" -> [t |-> "bool", v |-> "False"]
    [] OTHER -> [t |-> "NoneType", v |-> "None"]

json_dump_dict(d) == [key \in DOMAIN d |-> json_encode(d[key])]

json_load_dict(d) == [key \in DOMAIN d |-> json_decode(d[key])]

json_dump_items(items) ==
  [i \in 1..Len(items) |->
     [f \in DOMAIN items[i] |->
        IF f = "metadata" THEN json_dump_dict(items[i][f])
        ELSE json_encode(items[i][f])]]

json_load_items(doc) ==
  [i \in 1..Len(doc) |->
     [f \in DOMAIN doc[i] |->
        IF f = "metadata" THEN json_load_dict(doc[i][f])
        ELSE json_decode(doc[i][f])]]

EmptyDict == [key \in {} |-> PyNone]

\* the (query, response, metadata) triples handed to add_interaction
InteractionInputs ==
  { [query |-> "What is Python?", response |-> "Python is a language",
     metadata |-> EmptyDict],
    [query |-> "How do I use decorators?", response |-> "",
     metadata |-> [confidence_score |-> PyFloat("0.9"),
                   had_feedback |-> PyBool(TRUE),
                   problem_type |-> PyNone]] }

Interaction(stamp, sid, in) ==
  [timestamp |-> PyInt(stamp), session_id |-> PyInt(sid),
   query |-> PyStr(in.query), response |-> PyStr(in.response),
   metadata |-> in.metadata]

\* deque(maxlen=session_size).append
ring_append(ring, item) ==
  LET appended == Append(ring, item) IN
  IF Len(appended) > session_size
  THEN SubSeq(appended, Len(appended) - session_size + 1, Len(appended))
  ELSE appended

\* items[-n:]
LastN(items, n) ==
  IF Len(items) > n THEN SubSeq(items, Len(items) - n + 1, Len(items)) ELSE items

RECURSIVE AppendAll(_, _)
AppendAll(ring, items) ==
  IF items = <<>> THEN ring
  ELSE AppendAll(ring_append(ring, Head(items)), Tail(items))

NoFile == <<>>

load_session_oldest_ten(file) ==
  IF file = NoFile THEN <<>>
  ELSE AppendAll(<<>>, SubSeq(json_load_items(file[1]), 1,
                              Min(RehydrateCount, Len(file[1]))))

\* _load_session into the empty ring of a new ContextManager
load_session(file) ==
  IF file = NoFile THEN <<>>
  ELSE AppendAll(<<>>, LastN(json_load_items(file[1]), RehydrateCount))

\* save_session: the "items" of session_memory.json
save_session(ring) == <<json_dump_items(ring)>>

----------------------------------------------------------------------------
(* src/genesis_bridge.py: POST /run.  A request is what the handler reads  *)
(* of it: the peer address, the X-Genesis-Key header ("" when absent) and  *)
(* the body; run is what the child process does if the code is executed.   *)

ApiKey == "localonly"

PeerAddresses == {"127.0.0.1", "::1", "127.0.0.2", "192.168.1.5", "203.0.113.9"}

\* the addresses of PeerAddresses that are loopback addresses
LoopbackPeers == {"127.0.0.1", "::1", "127.0.0.2"}

ProvidedKeys == {"localonly", "wrong", ""}

\* not_json: get_json raises; no_code: JSON without "code"; unsafe_code:
\* code holding a pattern of dangerous_patterns; safe_code: code holding none
Bodies == {"not_json", "no_code", "unsafe_code", "safe_code"}

RunOutcomes == {"exit_0", "exit_1", "timeout"}

Request(peer, key, body, run) ==
  [remote_addr |-> peer, key |-> key, body |-> body, run |-> run]

Requests ==
  {Request(peer, key, body, run) :
     peer \in PeerAddresses, key \in ProvidedKeys,
     body \in Bodies \ {"safe_code"}, run \in {"exit_0"}}
  \cup
  {Request(peer, key, "safe_code", run) :
     peer \in PeerAddresses, key \in ProvidedKeys, run \in RunOutcomes}

verify_localhost_accepts_any(remote_addr) == TRUE

verify_localhost(remote_addr) ==
  remote_addr \in {"127.0.0.1", "localhost", "::1"}

verify_api_key_accepts_any(provided_key) == TRUE

verify_api_key(provided_key) == provided_key = ApiKey

sanitize_code(body) == body # "unsafe_code"

\* examined lists what the handler has read of the request, in order;
\* executed tells whether _execute_code was entered
Response(status, examined, executed, logged) ==
  [status |-> status, examined |-> examined, executed |-> executed,
   logged |-> logged]

handle_run_request(req) ==
  IF ~verify_localhost(req.remote_addr)
  THEN Response(403, <<"peer">>, FALSE, FALSE)
  ELSE IF ~verify_api_key(req.key)
  THEN Response(401, <<"peer", "key">>, FALSE, FALSE)
  ELSE IF req.body = "not_json"
  THEN Response(500, <<"peer", "key", "body">>, FALSE, TRUE)
  ELSE IF req.body = "no_code"
  THEN Response(400, <<"peer", "key", "body">>, FALSE, FALSE)
  ELSE IF ~sanitize_code(req.body)
  THEN Response(400, <<"peer", "key", "body", "denylist">>, FALSE, FALSE)
  ELSE Response(200, <<"peer", "key", "body", "denylist">>, TRUE, TRUE)

----------------------------------------------------------------------------
(* src/accel_manager.py: device assignment and inference with fallback.    *)
(* A device list is a sequence of "cpu", "gpu", "npu"; temperatures are in *)
(* whole degrees Celsius.  MaxDepth stands for the interpreter's recursion *)
(* limit, counted in nested fallback_inference calls.                      *)

BatteryThresholdPct == 20

TempThresholdC == 70

InSeq(x, seq) == \E i \in 1..Len(seq) : seq[i] = x

RECURSIVE SortedByGflops(_)
SortedByGflops(benchmarks) ==
  IF benchmarks = <<>> THEN <<>>
  ELSE LET rest == SortedByGflops(SubSeq(benchmarks, 1, Len(benchmarks) - 1))
           x == benchmarks[Len(benchmarks)]
           k == Cardinality({i \in 1..Len(rest) : rest[i].gflops >= x.gflops})
       IN SubSeq(rest, 1, k) \o <<x>> \o SubSeq(rest, k + 1, Len(rest))

\* run_benchmarks: the CPU is always benchmarked, the GPU and the NPU when
\* detected (their figures are the mocked 300 and 500 GFLOPS); ranked is
\* the stable sort by GFLOPS, descending
ranked_devices(gpu_available, npu_available, cpu_gflops) ==
  LET benchmarks ==
        <<[device |-> "cpu", gflops |-> cpu_gflops]>>
        \o (IF gpu_available THEN <<[device |-> "gpu", gflops |-> 300]>> ELSE <<>>)
        \o (IF npu_available THEN <<[device |-> "npu", gflops |-> 500]>> ELSE <<>>)
      sorted == SortedByGflops(benchmarks) IN
  [i \in 1..Len(sorted) |-> sorted[i].device]

ModelPaths == {"models/test_int8.gguf", "models/test_fp16.gguf", "models/test_q5.gguf"}

\* the profiles get_profile can return and the sensor readings
AccelEnvs ==
  [ranked : {ranked_devices(g, n, c) : g \in BOOLEAN, n \in BOOLEAN,
                                      c \in {0, 300, 600}},
   battery : {19, 20}, temp : {70, 71},
   model_path : ModelPaths, preferred : {"auto", "cpu", "gpu", "npu"}]

\* the first device of prefs that is ranked, "None" if there is none
FirstRanked(prefs, ranked) ==
  LET hits == {i \in 1..Len(prefs) : InSeq(prefs[i], ranked)} IN
  IF hits = {} THEN "None"
  ELSE prefs[CHOOSE i \in hits : \A j \in hits : i <= j]

assign_device_ignores_preference(env, preferred) ==
  IF env.battery < BatteryThresholdPct \/ env.temp > TempThresholdC THEN "cpu"
  ELSE IF env.ranked # <<>> THEN env.ranked[1] ELSE "cpu"

assign_device(env, preferred) ==
  LET ranked == env.ranked
      int_quantized == env.model_path = "models/test_int8.gguf"
      fp16 == env.model_path = "models/test_fp16.gguf" IN
  IF preferred # "auto" /\ InSeq(preferred, ranked) THEN preferred
  ELSE IF env.battery < BatteryThresholdPct \/ env.temp > TempThresholdC
  THEN "cpu"
  ELSE IF int_quantized /\ FirstRanked(<<"npu", "gpu", "cpu">>, ranked) # "None"
  THEN FirstRanked(<<"npu", "gpu", "cpu">>, ranked)
  ELSE IF fp16 /\ FirstRanked(<<"gpu", "cpu">>, ranked) # "None"
  THEN FirstRanked(<<"gpu", "cpu">>, ranked)
  ELSE IF ranked # <<>> THEN ranked[1] ELSE "cpu"

InferenceResult(success, device, raised) ==
  [success |-> success, device |-> device, raised |-> raised]

NoInferenceResult == InferenceResult(FALSE, "None", "None")

----------------------------------------------------------------------------
(* src/memory.py MemoryManager.save and load.  A file is the sequence of    *)
(* chunks json.dump has written into it so far: the opening of the         *)
(* document, one chunk per conversation, the closing.  The save methods of *)
(* ContextManager and FeedbackManager write in the same way.               *)

Chunk(k, id) == [k |-> k, id |-> id]

\* json.dump(data, f): the chunks of the document, in the order written
dump_chunks(conversations) ==
  <<Chunk("open", 0)>>
    \o [i \in 1..Len(conversations) |-> Chunk("conversation", conversations[i])]
    \o <<Chunk("close", 0)>>

\* the text parses as one JSON document
IsDocument(chunks) ==
  /\ Len(chunks) >= 2
  /\ chunks[1].k = "open"
  /\ chunks[Len(chunks)].k = "close"

MemFile(exists, chunks) == [exists |-> exists, chunks |-> chunks]

\* load: no file gives [], a JSONDecodeError is caught and gives []
load(file) ==
  IF ~file.exists THEN <<>>
  ELSE IF ~IsDocument(file.chunks) THEN <<>>
  ELSE [i \in 1..(Len(file.chunks) - 2) |-> file.chunks[i + 1].id]

\* what a reader of memory_file got, with the documents it may expect
ReadOf(chunks, previous, new) ==
  [done |-> TRUE, chunks |-> chunks, previous |-> previous, new |-> new]

NoRead == [done |-> FALSE, chunks |-> <<>>, previous |-> <<>>, new |-> <<>>]

----------------------------------------------------------------------------
(* src/genesis_bridge.py _execute_code and src/executor.py execute_code:   *)
(* both write the code to runtime/temp_exec.py and start `python` on that  *)
(* relative path.  A path is the sequence of its components; the cwd of    *)
(* the Genesis process is the empty path.                                  *)

\* two /run requests in flight and the pipeline's own CodeExecutor
Callers ==
  {[id |-> 1, via |-> "bridge"], [id |-> 2, via |-> "bridge"],
   [id |-> 3, via |-> "executor"]}

CallerIds == {c.id : c \in Callers}

\* self.temp_file = os.path.join("runtime", "temp_exec.py"), in both classes
temp_file == <<"runtime", "temp_exec.py">>

\* the cwd argument of subprocess.run: os.path.abspath(self.runtime_dir) in
\* the bridge, os.getcwd() in the executor
child_cwd(via) == IF via = "bridge" THEN <<"runtime">> ELSE <<>>

\* a relative path as the child process resolves it
resolve(cwd, path) == cwd \o path

ExecPaths == {resolve(child_cwd(via), temp_file) : via \in {"bridge", "executor"}}

\* output of `python <path>`: the run of the code found there, or python's
\* "can't open file" error (0 stands for no file)
python(files, path) ==
  IF files[path] = 0 THEN [ran |-> 0, error |-> "cant_open_file"]
  ELSE [ran |-> files[path], error |-> "none"]

NoOutput == [ran |-> 0, error |-> "not_run"]

----------------------------------------------------------------------------
(* src/time_sync.py: the clock state and its refresher thread.  The device *)
(* clock counts whole seconds; a day of the model has two of them.         *)

\* now.strftime("%Y-%m-%d %H:%M:%S"): the sample to the second
strftime(now) == [second |-> now]

\* now.date()
date(now) == [day |-> now \div 2]

\* the three attributes _update_time assigns, one after the other
ClockState(current_datetime, current_date, last_sync) ==
  [current_datetime |-> current_datetime, current_date |-> current_date,
   last_sync |-> last_sync]

\* the state one complete _update_time leaves for the sample now
SnapshotOf(now) == ClockState(strftime(now), date(now), strftime(now))

\* a thread running _sync_loop, or the caller of get_temporal_metadata
Thread(at, now) == [at |-> at, now |-> now]

NoMetadata == [done |-> FALSE, value |-> SnapshotOf(0)]

----------------------------------------------------------------------------
(* src/genesis.py lines 713-723: parsing of a feedback directive.  An      *)
(* input line is a sequence of tokens, each standing for the characters    *)
(* named; "em_dash" is the dash U+2014 and "note" a word of a note, such  *)
(* as "good".  get_multiline_input strips the line and the main loop drops *)
(* an empty one.                                                           *)

InputTokens == {"#correct", "#incorrect", "#CORRECT", " ", "-", "em_dash", "note"}

\* str.strip() of a line of tokens
line_strip(s) ==
  LET inked == {i \in 1..Len(s) : s[i] # " "} IN
  IF inked = {} THEN <<>>
  ELSE SubSeq(s, CHOOSE i \in inked : \A j \in inked : i <= j,
                 CHOOSE i \in inked : \A j \in inked : i >= j)

InputLines ==
  {s \in UNION {[1..n -> InputTokens] : n \in 1..MaxTokens} : line_strip(s) = s}

\* str.lower()
lower(s) == [i \in DOMAIN s |-> IF s[i] = "#CORRECT" THEN "#correct" ELSE s[i]]

\* str.startswith(prefix)
startswith(s, prefix) ==
  Len(s) >= Len(prefix) /\ SubSeq(s, 1, Len(prefix)) = prefix

\* str.find(sep) + 1: where sep first occurs in s, 0 if nowhere
find(s, sep) ==
  LET at == {i \in 1..Len(s) : /\ i + Len(sep) - 1 <= Len(s)
                               /\ SubSeq(s, i, i + Len(sep) - 1) = sep}
  IN IF at = {} THEN 0 ELSE CHOOSE i \in at : \A j \in at : i <= j

\* str.split(sep, 1)
split(s, sep) ==
  LET i == find(s, sep) IN
  IF i = 0 THEN <<s>>
  ELSE <<SubSeq(s, 1, i - 1), SubSeq(s, i + Len(sep), Len(s))>>

\* lines 714-720: whether the branch is taken, and the is_correct and note
\* it computes
parse_feedback(user_input) ==
  LET taken == \/ startswith(lower(user_input), <<"#correct">>)
               \/ startswith(lower(user_input), <<"#incorrect">>)
      parts == IF find(user_input, <<"em_dash">>) # 0
               THEN split(user_input, <<"em_dash">>)
               ELSE split(user_input, <<" ", "-", " ">>)
      feedback_type == lower(line_strip(parts[1]))
      note == IF Len(parts) > 1 THEN Some(line_strip(parts[2])) ELSE NoneV
  IN [taken |-> taken,
      is_correct |-> (feedback_type = <<"#correct">>),
      note |-> note]

NoFeedbackCall ==
  [done |-> FALSE, taken |-> FALSE, is_correct |-> FALSE, note |-> NoneV,
   outcome |-> "none"]

----------------------------------------------------------------------------
(* State.                                                                  *)

VARIABLES
  pc,               \* position of the controller inside process_input
  question_counter, \* Genesis.question_counter
  last_user_query,  \* Genesis.last_user_query (prompt text or "None")
  last_query_id,    \* Genesis.last_query_id (0 is None)
  last_response,    \* Genesis.last_response
  last_source,      \* Genesis.last_source
  claude_enabled,   \* ClaudeFallback.is_enabled(): the enable flag file exists
  reasoning,        \* the ReasoningEngine
  memory,           \* MemoryManager.conversations
  cur,              \* locals of the process_input call in flight / last finished
  n_inputs,         \* inputs read so far by the run loop
  asked,            \* asked[n]: text processed under question id q<n>
  log,              \* per input: what was typed and how it was dispatched
  source_weights,   \* FeedbackManager.source_weights
  fb_log,           \* per feedback directive: what it did to the ledger
  det_call,         \* UncertaintyDetector: the call under test
  det_result,       \* UncertaintyDetector: what the call returned
  ws_cache,         \* WebSearchCache: the cache files, by query
  ws_now,           \* time.time()
  ws_log,           \* per call of WebSearch.search: arguments, scenario, result
  lm_pool,          \* LearningMemory.conversation_memory["conversations"]
  lm_file,          \* conversation_memory.json
  lm_learning,      \* LearningMemory.learning_log["entries"]
  lm_pc,            \* "idle", or "blocked" inside add_conversation
  lm_added,         \* conversations handed to add_conversation so far
  lm_last_op,       \* the last operation on the LearningMemory
  lm_hist,          \* per completed prune: the memory before and after
  ctx_session,      \* ContextManager.session_memory
  ctx_query_count,  \* ContextManager.session_metadata["query_count"]
  ctx_sid,          \* the ContextManager instances created so far
  ctx_file,         \* session_memory.json
  ctx_added,        \* interactions added so far, over all instances
  ctx_rich,         \* of these, the ones that came with metadata
  ctx_saved,        \* the ring is as the last save_session wrote it
  ctx_reload,       \* the last start of a new ContextManager: ring before, after
  br_temp_file,     \* runtime/temp_exec.py: the request whose code it holds
  br_log_lines,     \* lines of bridge_log.txt
  br_served,        \* per /run request: the request and its response
  ac_env,           \* accel_manager: profile, sensors and the call's arguments
  ac_pc,            \* "idle", "assigned", "run", "fallback" or "done"
  ac_assigned,      \* what assign_device returned
  ac_device,        \* device of the run_inference call in progress
  ac_stack,         \* the fallback_inference calls in progress, outermost first
  ac_attempts,      \* devices run_inference was called for, in call order
  ac_result,        \* what the outermost run_inference returned or raised
  lm_learning_file, \* learning_log.json as last written
  mm_conversations, \* MemoryManager.conversations (ids of the interactions)
  mm_file,          \* memory_file: whether it exists and the chunks in it
  mm_pc,            \* "idle", or "writing" between open(..., 'w') and the close
  mm_previous,      \* the content of memory_file when the last save began
  mm_added,         \* add_interaction calls so far
  mm_crashes,       \* times the process was killed
  mm_read,          \* what the last reader of memory_file got
  ex_files,         \* per path: id of the caller whose code the file holds, or 0
  ex_pc,            \* per caller: "idle", "written" or "returned"
  ex_output,        \* per caller: what its subprocess.run produced
  ts_clock,         \* the device clock
  ts_state,         \* TimeSync.current_datetime, current_date, last_sync
  ts_is_running,    \* TimeSync.is_running
  ts_threads,       \* the _sync_loop threads ever started, in order
  ts_reader,        \* the thread inside get_temporal_metadata
  ts_got,           \* the values the reader has read so far
  ts_metadata,      \* what the last get_temporal_metadata returned
  ts_reads,         \* get_temporal_metadata calls so far
  ts_state_file,    \* system_state.json: last_sync and current_datetime
  cq_post_cutoff,   \* ReasoningEngine: what time_sync.is_after_knowledge_cutoff() answers
  cq_log,           \* ReasoningEngine: the queries analysed and their analyses
  fp_input,         \* feedback parsing: the line typed
  fp_call,          \* feedback parsing: what process_input made of the line
  ft_passed         \* arguments of the add_feedback calls, each with the locals of the last prompt

pipelineVars ==
  <<pc, question_counter, last_user_query, last_query_id, last_response,
    last_source, claude_enabled, reasoning, memory, cur,
    n_inputs, asked, log, source_weights, fb_log>>

detVars == <<det_call, det_result>>

\* the components that process_input does not drive in this model
wsVars == <<ws_cache, ws_now, ws_log>>

lmVars ==
  <<lm_pool, lm_file, lm_learning, lm_pc, lm_added, lm_last_op, lm_hist,
    lm_learning_file>>

ctxVars ==
  <<ctx_session, ctx_query_count, ctx_sid, ctx_file, ctx_added, ctx_rich,
    ctx_saved, ctx_reload>>

brVars == <<br_temp_file, br_log_lines, br_served>>

acVars ==
  <<ac_env, ac_pc, ac_assigned, ac_device, ac_stack, ac_attempts, ac_result>>

mmVars ==
  <<mm_conversations, mm_file, mm_pc, mm_previous, mm_added, mm_crashes,
    mm_read>>

exVars == <<ex_files, ex_pc, ex_output>>

tsVars ==
  <<ts_clock, ts_state, ts_is_running, ts_threads, ts_reader, ts_got,
    ts_metadata, ts_reads, ts_state_file>>

cqVars == <<cq_post_cutoff, cq_log>>

fpVars == <<fp_input, fp_call>>

ftVars == <<ft_passed>>

subsystemVars == <<detVars, wsVars, lmVars, ctxVars, brVars, acVars, mmVars, exVars, tsVars, cqVars, fpVars, ftVars>>

vars == <<pipelineVars, subsystemVars>>

\* every component but the detector under test
detRest == <<pipelineVars, wsVars, lmVars, ctxVars, brVars, acVars, mmVars, exVars, tsVars, cqVars, fpVars, ftVars>>

\* every component but the web search under test
wsRest == <<pipelineVars, detVars, lmVars, ctxVars, brVars, acVars, mmVars, exVars, tsVars, cqVars, fpVars, ftVars>>

\* every component but the learning memory under test
lmRest == <<pipelineVars, detVars, wsVars, ctxVars, brVars, acVars, mmVars, exVars, tsVars, cqVars, fpVars, ftVars>>

\* every component but the context manager under test
ctxRest == <<pipelineVars, detVars, wsVars, lmVars, brVars, acVars, mmVars, exVars, tsVars, cqVars, fpVars, ftVars>>

\* every component but the bridge under test
brRest == <<pipelineVars, detVars, wsVars, lmVars, ctxVars, acVars, mmVars, exVars, tsVars, cqVars, fpVars, ftVars>>

\* every component but the acceleration manager under test
acRest == <<pipelineVars, detVars, wsVars, lmVars, ctxVars, brVars, mmVars, exVars, tsVars, cqVars, fpVars, ftVars>>

\* every component but the conversation memory under test
mmRest == <<pipelineVars, detVars, wsVars, lmVars, ctxVars, brVars, acVars, exVars, tsVars, cqVars, fpVars, ftVars>>

\* every component but the code execution under test
exRest == <<pipelineVars, detVars, wsVars, lmVars, ctxVars, brVars, acVars, mmVars, tsVars, cqVars, fpVars, ftVars>>

\* every component but the time sync under test
tsRest == <<pipelineVars, detVars, wsVars, lmVars, ctxVars, brVars, acVars, mmVars, exVars, cqVars, fpVars, ftVars>>

\* every component but the query classifier under test
cqRest == <<pipelineVars, detVars, wsVars, lmVars, ctxVars, brVars, acVars, mmVars, exVars, tsVars, fpVars, ftVars>>

\* every component but the feedback parsing under test
fpRest == <<pipelineVars, detVars, wsVars, lmVars, ctxVars, brVars, acVars, mmVars, exVars, tsVars, cqVars, ftVars>>

\* every component but the record of the add_feedback arguments
ftRest == <<pipelineVars, detVars, wsVars, lmVars, ctxVars, brVars, acVars, mmVars, exVars, tsVars, cqVars, fpVars>>

ledgerVars == <<source_weights, fb_log>>

NoTemporal ==
  [time_sensitive |-> FALSE, needs_live_data |-> FALSE,
   temporal_uncertain |-> FALSE, should_trigger_fallback |-> FALSE]

\* locals at the entry of process_input
Locals(typed, user_input, is_retry) ==
  [typed |-> typed, user_input |-> user_input, is_retry |-> is_retry,
   qid |-> 0, temporal |-> NoTemporal, problem_type |-> "none",
   response |-> NoText, response_source |-> "none",
   used_calculated_answer |-> FALSE, should_fallback |-> FALSE,
   confidence |-> 0, llm_outcome |-> "none",
   websearch_response |-> NoText, perplexity_response |-> NoText,
   claude_response |-> NoText,
   contacted |-> <<>>,   \* fallback sources called, in call order
   outcome |-> "running"]

DetIdle ==
  /\ det_call = DetectorCall(NoText, NoneV)
  /\ det_result = NoDetectorResult

WsIdle ==
  /\ ws_cache = [q \in Queries |-> NoEntry]
  /\ ws_now = 0
  /\ ws_log = <<>>

LmIdle ==
  /\ lm_pool = <<>>
  /\ lm_file = <<>>
  /\ lm_learning = <<>>
  /\ lm_learning_file = <<>>
  /\ lm_pc = "idle"
  /\ lm_added = 0
  /\ lm_last_op = "none"
  /\ lm_hist = <<>>

CtxIdle ==
  /\ ctx_session = <<>>
  /\ ctx_query_count = 0
  /\ ctx_sid = 1
  /\ ctx_file = NoFile
  /\ ctx_added = 0
  /\ ctx_rich = 0
  /\ ctx_saved = FALSE
  /\ ctx_reload = <<>>

BrIdle ==
  /\ br_temp_file = <<>>
  /\ br_log_lines = 0
  /\ br_served = <<>>

AcIdle ==
  /\ ac_env = [ranked |-> <<"cpu">>, battery |-> 20, temp |-> 70,
               model_path |-> "models/test_q5.gguf", preferred |-> "auto"]
  /\ ac_pc = "idle"
  /\ ac_assigned = "None"
  /\ ac_device = "None"
  /\ ac_stack = <<>>
  /\ ac_attempts = <<>>
  /\ ac_result = NoInferenceResult

MmIdle ==
  /\ mm_conversations = <<>>
  /\ mm_file = MemFile(FALSE, <<>>)
  /\ mm_pc = "idle"
  /\ mm_previous = <<>>
  /\ mm_added = 0
  /\ mm_crashes = 0
  /\ mm_read = NoRead

ExIdle ==
  /\ ex_files = [p \in ExecPaths |-> 0]
  /\ ex_pc = [c \in CallerIds |-> "idle"]
  /\ ex_output = [c \in CallerIds |-> NoOutput]

\* after __init__: one _update_time and one _save_state
TsIdle ==
  /\ ts_clock = 0
  /\ ts_state = SnapshotOf(0)
  /\ ts_is_running = FALSE
  /\ ts_threads = <<>>
  /\ ts_reader = Thread("idle", 0)
  /\ ts_got = SnapshotOf(0)
  /\ ts_metadata = NoMetadata
  /\ ts_reads = 0
  /\ ts_state_file = [last_sync |-> strftime(0), current_datetime |-> strftime(0)]

CqIdle ==
  /\ cq_post_cutoff = FALSE
  /\ cq_log = <<>>

FpIdle ==
  /\ fp_input = <<>>
  /\ fp_call = NoFeedbackCall

FtIdle == ft_passed = <<>>

SubsystemsIdle == DetIdle /\ WsIdle /\ LmIdle /\ CtxIdle /\ BrIdle /\ AcIdle /\ MmIdle /\ ExIdle /\ TsIdle /\ CqIdle /\ FpIdle /\ FtIdle

PipelineInit ==
  /\ pc = "idle"
  /\ question_counter = 0
  /\ last_user_query = "None"
  /\ last_query_id = 0
  /\ last_response = NoText
  /\ last_source = "local"
  /\ reasoning = ReasoningInit
  /\ memory = <<>>
  /\ cur = [Locals("None", "None", FALSE) EXCEPT !.outcome = "none"]
  /\ n_inputs = 0
  /\ asked = <<>>
  /\ log = <<>>
  /\ source_weights = default_weights
  /\ fb_log = <<>>

Init ==
  /\ PipelineInit
  /\ claude_enabled \in BOOLEAN
  /\ SubsystemsIdle

\* lines 651-662: a retry phrase replaces the input by the last query
EffectiveInput(p) ==
  IF IsRetry(p) /\ last_user_query # "None" THEN PromptOf(last_user_query) ELSE p

\* a controller that never reuses an id
reuse_question_id_never(is_retry, last_id) == FALSE

\* line 848: a retry reuses the id of the last query, if there is one
reuse_question_id(is_retry, last_id) == is_retry /\ last_id # 0

\* One entry per input: the text typed, the text processed, how it was
\* dispatched, the question id it ran under (0: none), the question counter
\* before and after, and whether a last query was on record on arrival.
LogEntry(p, u, kind, qid, counter_after) ==
  [typed |-> p.text, user_input |-> u.text, kind |-> kind, qid |-> qid,
   counter_before |-> question_counter, counter_after |-> counter_after,
   had_last |-> (last_user_query # "None")]

----------------------------------------------------------------------------
(* process_input, one action per stretch of straight-line code.            *)

\* lines 672-812: a control directive is handled and the call returns
ControlDirective(p) ==
  LET u == EffectiveInput(p) IN
  /\ pc = "idle" /\ n_inputs < MaxInputs
  /\ IsControlDirective(u)
  /\ claude_enabled' = IF u.text = "#assist" THEN ~claude_enabled ELSE claude_enabled
  /\ cur' = [Locals(p.text, u.text, IsRetry(p)) EXCEPT !.outcome = "control"]
  /\ n_inputs' = n_inputs + 1
  /\ log' = Append(log, LogEntry(p, u, "control", 0, question_counter))
  /\ UNCHANGED <<pc, question_counter, last_user_query, last_query_id,
                 last_response, last_source, reasoning,
                 memory, asked>>
  /\ UNCHANGED ledgerVars
  /\ UNCHANGED subsystemVars

\* what a feedback directive did: the source it was routed to, whether it
\* directly follows a prompt answered to the end, whether add_feedback was
\* called, and the ledger before and after
FeedbackEntry(is_correct, recorded, after) ==
  [source |-> last_source, is_correct |-> is_correct,
   follows_answer |-> (cur.outcome = "completed"),
   recorded |-> recorded, before |-> source_weights, after |-> after]

IsFeedback(p) == p.words \cap {"#correct", "#incorrect"} # {}

\* src/performance_monitor.py PerformanceMonitor.record_feedback(self,
\* is_correct): a call that passes a keyword the method does not declare
\* raises TypeError before the body runs
record_feedback(keywords) ==
  IF keywords \subseteq {"is_correct"} THEN "returned" ELSE "TypeError"

\* lines 713-761: #correct / #incorrect
Feedback(p) ==
  LET u == EffectiveInput(p)
      is_correct == "#correct" \in u.words
      \* line 723: record_feedback(is_correct=is_correct, note=note); nothing
      \* in process_input catches what it raises
      raised == record_feedback({"is_correct", "note"}) = "TypeError"
      recorded == ~raised /\ last_user_query # "None" /\ ~Falsy(last_response)
      after == IF recorded THEN add_feedback(source_weights, last_source, is_correct)
               ELSE source_weights
  IN
  /\ pc = "idle"
  /\ IsFeedback(u)
  /\ source_weights' = after
  /\ fb_log' = Append(fb_log, FeedbackEntry(is_correct, recorded, after))
  /\ cur' = [Locals(p.text, u.text, IsRetry(p)) EXCEPT
               !.outcome = IF raised THEN "raised" ELSE "control"]
  /\ n_inputs' = n_inputs + 1
  /\ log' = Append(log, LogEntry(p, u, "control", 0, question_counter))
  /\ UNCHANGED <<pc, question_counter, last_user_query, last_query_id,
                 last_response, last_source, claude_enabled, reasoning,
                 memory, asked>>
  /\ UNCHANGED subsystemVars

FeedbackDirective(p) == n_inputs < MaxInputs /\ Feedback(p)

\* lines 814-845: a direct command is answered without the reasoning engine
DirectCommand(p) ==
  LET u == EffectiveInput(p)
      d == handle_direct_command(u) IN
  /\ pc = "idle" /\ n_inputs < MaxInputs
  /\ ~IsControlDirective(u) /\ ~IsFeedback(u)
  /\ d.handled
  /\ memory' = add_interaction(memory, u.text, d.result, FALSE)
  /\ cur' = [Locals(p.text, u.text, IsRetry(p)) EXCEPT
               !.response = d.result, !.outcome = "direct"]
  /\ n_inputs' = n_inputs + 1
  /\ log' = Append(log, LogEntry(p, u, "direct", 0, question_counter))
  /\ UNCHANGED <<pc, question_counter, last_user_query, last_query_id,
                 last_response, last_source, claude_enabled,
                 reasoning, asked>>
  /\ UNCHANGED ledgerVars
  /\ UNCHANGED subsystemVars

\* lines 847-863: question id, last query, start_new_question
BeginQuestion(p) ==
  LET u        == EffectiveInput(p)
      is_retry == IsRetry(p)
      reuse    == reuse_question_id(is_retry, last_query_id)
      current_question_id == IF reuse THEN last_query_id ELSE question_counter + 1
  IN
  /\ pc = "idle" /\ n_inputs < MaxInputs
  /\ ~IsControlDirective(u) /\ ~IsFeedback(u)
  /\ ~handle_direct_command(u).handled
  /\ question_counter' = IF reuse THEN question_counter ELSE question_counter + 1
  /\ last_user_query' = IF ~is_retry THEN u.text ELSE last_user_query
  /\ last_query_id' = IF ~is_retry THEN current_question_id ELSE last_query_id
  /\ reasoning' = start_new_question(reasoning, current_question_id)
  /\ cur' = [Locals(p.text, u.text, is_retry) EXCEPT !.qid = current_question_id]
  /\ asked' = IF reuse THEN asked ELSE Append(asked, u.text)
  /\ n_inputs' = n_inputs + 1
  /\ log' = Append(log, LogEntry(p, u, "question", current_question_id,
                                 question_counter'))
  /\ pc' = "reason"
  /\ UNCHANGED <<last_response, last_source, claude_enabled, memory>>
  /\ UNCHANGED ledgerVars
  /\ UNCHANGED subsystemVars

\* lines 865-892: temporal analysis, problem type, reasoning trace;
\* is_post_cutoff is what TimeSync.is_after_knowledge_cutoff() answers
Reason(is_post_cutoff) ==
  LET u == PromptOf(cur.user_input)
      problem_type == detect_problem_type(u) IN
  /\ pc = "reason"
  /\ reasoning' = generate_reasoning_trace(reasoning, u, problem_type)
  /\ cur' = [cur EXCEPT !.temporal = detect_temporal_uncertainty(u, is_post_cutoff),
                        !.problem_type = problem_type]
  /\ pc' = "answer"
  /\ UNCHANGED <<question_counter, last_user_query, last_query_id, last_response,
                 last_source, claude_enabled, memory, n_inputs,
                 asked, log>>
  /\ UNCHANGED ledgerVars
  /\ UNCHANGED subsystemVars

\* where the controller goes after the answer / after a cascade step:
\* lines 939, 960 and 987
AfterGate(c) == IF c.should_fallback THEN "websearch" ELSE "finalize"

AfterWebSearch(c) == IF Falsy(c.websearch_response) THEN "perplexity" ELSE "finalize"

AfterPerplexity(c) ==
  IF /\ c.should_fallback
     /\ Falsy(c.websearch_response)
     /\ Falsy(c.perplexity_response)
     /\ claude_enabled
  THEN "claude" ELSE "finalize"

\* lines 895-902, 915-917: the calculated answer is used, the LLM is skipped
UseCalculatedAnswer ==
  LET calculated_answer == get_calculated_answer(reasoning) IN
  /\ pc = "answer"
  /\ calculated_answer # NoneV
  /\ cur' = [cur EXCEPT !.response = Text("local_calculated", "calculated"),
                        !.response_source = "local_calculated",
                        !.used_calculated_answer = TRUE,
                        !.should_fallback = FALSE,
                        !.confidence = 100]
  /\ pc' = AfterGate(cur')
  /\ UNCHANGED <<question_counter, last_user_query, last_query_id, last_response,
                 last_source, claude_enabled, reasoning, memory,
                 n_inputs, asked, log>>
  /\ UNCHANGED ledgerVars
  /\ UNCHANGED subsystemVars

\* lines 903-936: the local LLM is called and its text goes through the gate
CallLocalModel(o) ==
  LET response == call_llm(o)
      gate     == should_trigger_fallback(response)
      temporal == cur.temporal.should_trigger_fallback IN
  /\ pc = "answer"
  /\ get_calculated_answer(reasoning) = NoneV
  /\ cur' = [cur EXCEPT !.response = response,
                        !.response_source = "local",
                        !.llm_outcome = o,
                        !.should_fallback = (gate.should_fallback \/ temporal),
                        !.confidence = IF temporal THEN Min(gate.confidence_score, 50)
                                       ELSE gate.confidence_score]
  /\ pc' = AfterGate(cur')
  /\ UNCHANGED <<question_counter, last_user_query, last_query_id, last_response,
                 last_source, claude_enabled, reasoning, memory,
                 n_inputs, asked, log>>
  /\ UNCHANGED ledgerVars
  /\ UNCHANGED subsystemVars

Attempt(source, accepted) == [source |-> source, accepted |-> accepted]

\* lines 944-957: step 1, WebSearch
WebSearchStep(o) ==
  LET accepted == ~o.raised /\ o.success /\ o.confidence >= WsThreshold IN
  /\ pc = "websearch"
  /\ cur' = [cur EXCEPT
               !.websearch_response =
                  IF accepted THEN Text("websearch", "search_results") ELSE NoText,
               !.response_source = IF accepted THEN "websearch" ELSE @,
               !.contacted = Append(@, Attempt("websearch", accepted))]
  /\ pc' = AfterWebSearch(cur')
  /\ UNCHANGED <<question_counter, last_user_query, last_query_id, last_response,
                 last_source, claude_enabled, reasoning, memory,
                 n_inputs, asked, log>>
  /\ UNCHANGED ledgerVars
  /\ UNCHANGED subsystemVars

\* lines 959-984: step 2, Perplexity
PerplexityStep(o) ==
  /\ pc = "perplexity"
  /\ cur' = [cur EXCEPT
               !.perplexity_response =
                  IF o.success THEN Text("perplexity", o.body) ELSE NoText,
               !.response_source = IF o.success THEN "perplexity" ELSE @,
               !.contacted = Append(@, Attempt("perplexity", o.success))]
  /\ pc' = AfterPerplexity(cur')
  /\ UNCHANGED <<question_counter, last_user_query, last_query_id, last_response,
                 last_source, claude_enabled, reasoning, memory,
                 n_inputs, asked, log>>
  /\ UNCHANGED ledgerVars
  /\ UNCHANGED subsystemVars

\* lines 986-1062: step 3, Claude.  A None reply stores the local answer
\* under the uncertain banner and returns from process_input.
ClaudeStep(o) ==
  /\ pc = "claude"
  /\ cur' = [cur EXCEPT
               !.claude_response = o,
               !.response_source = IF ~Falsy(o) THEN "claude" ELSE @,
               !.contacted = Append(@, Attempt("claude", o # NoText)),
               !.outcome = IF o = NoText THEN "uncertain_return" ELSE @]
  /\ memory' = IF o = NoText
               THEN add_interaction(memory, cur.user_input, cur.response, TRUE)
               ELSE memory
  /\ pc' = IF o = NoText THEN "idle" ELSE "finalize"
  /\ UNCHANGED <<question_counter, last_user_query, last_query_id, last_response,
                 last_source, claude_enabled, reasoning,
                 n_inputs, asked, log>>
  /\ UNCHANGED ledgerVars
  /\ UNCHANGED subsystemVars

\* lines 1067-1074
FinalResponse(c) ==
  IF ~Falsy(c.websearch_response) THEN c.websearch_response
  ELSE IF ~Falsy(c.perplexity_response) THEN c.perplexity_response
  ELSE IF ~Falsy(c.claude_response) THEN c.claude_response
  ELSE c.response

\* lines 1064-1172: final answer, last response and source, memory
Finalize ==
  LET final_response == FinalResponse(cur) IN
  /\ pc = "finalize"
  /\ last_response' = final_response
  /\ last_source' = cur.response_source
  /\ memory' = add_interaction(memory, cur.user_input, final_response, FALSE)
  /\ cur' = [cur EXCEPT !.outcome = "completed"]
  /\ pc' = "idle"
  /\ UNCHANGED <<question_counter, last_user_query, last_query_id, claude_enabled,
                 reasoning, n_inputs, asked, log>>
  /\ UNCHANGED ledgerVars
  /\ UNCHANGED subsystemVars

Next ==
  \/ \E p \in Catalog : ControlDirective(p)
  \/ \E p \in Catalog : FeedbackDirective(p)
  \/ \E p \in Catalog : DirectCommand(p)
  \/ \E p \in Catalog : BeginQuestion(p)
  \/ \E is_post_cutoff \in BOOLEAN : Reason(is_post_cutoff)
  \/ UseCalculatedAnswer
  \/ \E o \in LlmOutcomes : CallLocalModel(o)
  \/ \E o \in WsOutcomes : WebSearchStep(o)
  \/ \E o \in PxOutcomes : PerplexityStep(o)
  \/ \E o \in ClaudeOutcomes : ClaudeStep(o)
  \/ Finalize

Spec == Init /\ [][Next]_vars

----------------------------------------------------------------------------
(* One prompt followed by a run of feedback directives.                    *)

FirstQuestion(p) == n_inputs = 0 /\ BeginQuestion(p)

\* FeedbackManager.add_feedback called on its own for the answer of the
\* session, as lines 726-735 of process_input pass it
LedgerFeedback(is_correct) ==
  LET after == add_feedback(source_weights, last_source, is_correct) IN
  /\ pc = "idle" /\ Len(fb_log) < MaxFeedback
  /\ last_user_query # "None" /\ ~Falsy(last_response)
  /\ source_weights' = after
  /\ fb_log' = Append(fb_log, FeedbackEntry(is_correct, TRUE, after))
  /\ UNCHANGED <<pc, question_counter, last_user_query, last_query_id,
                 last_response, last_source, claude_enabled, reasoning,
                 memory, cur, n_inputs, asked, log>>
  /\ UNCHANGED subsystemVars

NextLedger ==
  \/ \E p \in Catalog : FirstQuestion(p)
  \/ \E is_post_cutoff \in BOOLEAN : Reason(is_post_cutoff)
  \/ UseCalculatedAnswer
  \/ \E o \in LlmOutcomes : CallLocalModel(o)
  \/ \E o \in WsOutcomes : WebSearchStep(o)
  \/ \E o \in PxOutcomes : PerplexityStep(o)
  \/ \E o \in ClaudeOutcomes : ClaudeStep(o)
  \/ Finalize
  \/ \E is_correct \in BOOLEAN : LedgerFeedback(is_correct)

SpecLedger == Init /\ [][NextLedger]_vars

----------------------------------------------------------------------------
(* The uncertainty detector called on its own.                             *)

InitDetector ==
  /\ PipelineInit /\ claude_enabled = FALSE
  /\ WsIdle /\ LmIdle /\ CtxIdle /\ BrIdle /\ AcIdle /\ MmIdle /\ ExIdle /\ TsIdle /\ CqIdle /\ FpIdle /\ FtIdle
  /\ det_call \in {DetectorCall(r, t) : r \in DetectorResponses, t \in DetectorThresholds}
  /\ det_result = NoDetectorResult

CallDetector ==
  LET r == should_trigger_fallback_override(det_call.response, det_call.override_threshold) IN
  /\ ~det_result.done
  /\ det_result' = [done |-> TRUE, should_fallback |-> r.should_fallback,
                    confidence_score |-> r.confidence_score]
  /\ UNCHANGED det_call
  /\ UNCHANGED detRest

NextDetector == CallDetector

SpecDetector == InitDetector /\ [][NextDetector]_vars

----------------------------------------------------------------------------
(* WebSearch.search called on its own, with the clock advancing between    *)
(* calls.                                                                  *)

InitWebSearch ==
  /\ PipelineInit /\ claude_enabled = FALSE
  /\ DetIdle /\ LmIdle /\ CtxIdle /\ BrIdle /\ AcIdle /\ MmIdle /\ ExIdle /\ TsIdle /\ CqIdle /\ FpIdle /\ FtIdle
  /\ WsIdle

SearchCall(query, use_cache, sc) ==
  LET r == search(ws_cache, ws_now, query, use_cache, sc) IN
  /\ Len(ws_log) < MaxSearches
  /\ ws_cache' = r.cache
  /\ ws_log' = Append(ws_log, [query |-> query, use_cache |-> use_cache,
                               time |-> ws_now,
                               scenario |-> IF r.result.requests = 0
                                            THEN Scenario(Failed, Failed, Failed, <<1, 2, 3>>)
                                            ELSE sc,
                               result |-> r.result])
  /\ UNCHANGED ws_now
  /\ UNCHANGED wsRest

ClockAdvance(d) ==
  /\ ws_now + d <= MaxClock
  /\ ws_now' = ws_now + d
  /\ UNCHANGED <<ws_cache, ws_log>>
  /\ UNCHANGED wsRest

NextWebSearch ==
  \/ \E query \in Queries, use_cache \in BOOLEAN, sc \in Scenarios :
       SearchCall(query, use_cache, sc)
  \/ \E d \in ClockSteps : ClockAdvance(d)

SpecWebSearch == InitWebSearch /\ [][NextWebSearch]_vars

----------------------------------------------------------------------------
(* LearningMemory on its own: conversations are added, #prune_memory       *)
(* prunes, and the process is restarted on the same memory directory.      *)

InitLearning ==
  /\ PipelineInit /\ claude_enabled = FALSE
  /\ DetIdle /\ WsIdle /\ CtxIdle /\ BrIdle /\ AcIdle /\ MmIdle /\ ExIdle /\ TsIdle /\ CqIdle /\ FpIdle /\ FtIdle
  /\ LmIdle

\* _prune_conversations run to its end on pool, followed by the save of
\* its callers manual_prune and _auto_prune
Pruned(pool, entries) ==
  LET kept == prune_conversations(pool)
      learning == add_learning_entry(entries,
                                     PruningEntry(Len(pool), Len(kept))) IN
  /\ lm_pool' = kept
  /\ lm_learning' = learning
  /\ lm_learning_file' = learning
  /\ lm_file' = kept
  /\ lm_last_op' = "prune"
  /\ lm_hist' = Append(lm_hist,
                       [in_a_row |-> lm_last_op = "prune",
                        before |-> pool, pool |-> kept, file |-> kept,
                        learning |-> learning])

\* add_conversation appends under self._lock; at the threshold it calls
\* _prune_conversations with the lock held, which waits for the same
\* non-reentrant lock and never returns, so the save is not reached
AddConversation(kind) ==
  LET appended == Append(lm_pool, Conversation(lm_added + 1, kind)) IN
  /\ lm_pc = "idle"
  /\ lm_added < MaxAdds
  /\ lm_added' = lm_added + 1
  /\ lm_pool' = appended
  /\ lm_last_op' = "add"
  /\ IF NeedsPrune(Len(appended)) /\ acquire(TRUE) = "blocks"
     THEN lm_pc' = "blocked" /\ UNCHANGED lm_file
     ELSE lm_pc' = "idle" /\ lm_file' = appended
  /\ UNCHANGED <<lm_learning, lm_learning_file, lm_hist>>
  /\ UNCHANGED lmRest

ManualPrune ==
  /\ lm_pc = "idle"
  /\ Len(lm_hist) < MaxPrunes
  /\ Pruned(lm_pool, lm_learning)
  /\ UNCHANGED <<lm_pc, lm_added>>
  /\ UNCHANGED lmRest

\* a new process: __init__ loads the files and calls _auto_prune
Restart ==
  /\ lm_pc = "blocked"
  /\ lm_pc' = "idle"
  /\ IF NeedsPrune(Len(lm_file))
     THEN Pruned(lm_file, lm_learning_file)
     ELSE /\ lm_pool' = lm_file
          /\ lm_learning' = lm_learning_file
          /\ lm_last_op' = "load"
          /\ UNCHANGED <<lm_file, lm_learning_file, lm_hist>>
  /\ UNCHANGED lm_added
  /\ UNCHANGED lmRest

\* add_feedback_note takes self._lock, marks the conversation, appends to
\* the learning log and calls _save_conversation_memory, whose first step
\* is to take self._lock again; the keys it writes into the conversation's
\* metadata (feedback_note, feedback_correct, feedback_timestamp) are read
\* by no scoring rule
AddFeedbackNote(is_correct) ==
  LET entries == Append(lm_learning, FeedbackNoteEntry(is_correct)) IN
  /\ lm_pc = "idle"
  /\ lm_learning' = entries
  /\ lm_last_op' = "feedback_note"
  /\ IF acquire(TRUE) = "blocks"
     THEN lm_pc' = "blocked" /\ UNCHANGED <<lm_file, lm_learning_file>>
     ELSE lm_pc' = "idle" /\ lm_file' = lm_pool /\ lm_learning_file' = entries
  /\ UNCHANGED <<lm_pool, lm_added, lm_hist>>
  /\ UNCHANGED lmRest

NextLearning ==
  \/ \E kind \in ConversationKinds : AddConversation(kind)
  \/ \E is_correct \in BOOLEAN : AddFeedbackNote(is_correct)
  \/ ManualPrune
  \/ Restart

SpecLearning == InitLearning /\ [][NextLearning]_vars

----------------------------------------------------------------------------
(* ContextManager on its own: interactions are added, the session is       *)
(* saved, and a new ContextManager is created on the same data directory.  *)

InitContext ==
  /\ PipelineInit /\ claude_enabled = FALSE
  /\ DetIdle /\ WsIdle /\ LmIdle /\ BrIdle /\ AcIdle /\ MmIdle /\ ExIdle /\ TsIdle /\ CqIdle /\ FpIdle /\ FtIdle
  /\ CtxIdle

AddInteraction(in) ==
  LET ring == ring_append(ctx_session, Interaction(ctx_added + 1, ctx_sid, in))
      autosave == (ctx_query_count + 1) % AutoSaveEvery = 0 IN
  /\ ctx_added < MaxInteractions
  /\ in.metadata # EmptyDict => ctx_rich < MaxWithMetadata
  /\ ctx_added' = ctx_added + 1
  /\ ctx_rich' = IF in.metadata # EmptyDict THEN ctx_rich + 1 ELSE ctx_rich
  /\ ctx_session' = ring
  /\ ctx_query_count' = ctx_query_count + 1
  /\ ctx_file' = IF autosave THEN save_session(ring) ELSE ctx_file
  /\ ctx_saved' = autosave
  /\ UNCHANGED <<ctx_sid, ctx_reload>>
  /\ UNCHANGED ctxRest

SaveSession ==
  /\ ~ctx_saved
  /\ ctx_file' = save_session(ctx_session)
  /\ ctx_saved' = TRUE
  /\ UNCHANGED <<ctx_session, ctx_query_count, ctx_sid, ctx_added, ctx_rich,
                 ctx_reload>>
  /\ UNCHANGED ctxRest

\* ContextManager(data_dir): an empty ring, then _load_session
NewContextManager ==
  LET loaded == load_session(ctx_file) IN
  /\ ctx_sid < MaxManagers
  /\ ctx_sid' = ctx_sid + 1
  /\ ctx_session' = loaded
  /\ ctx_query_count' = 0
  /\ ctx_saved' = FALSE
  /\ ctx_reload' = <<[persisted |-> ctx_saved, ring |-> ctx_session,
                      loaded |-> loaded]>>
  /\ UNCHANGED <<ctx_file, ctx_added, ctx_rich>>
  /\ UNCHANGED ctxRest

NextContext ==
  \/ \E in \in InteractionInputs : AddInteraction(in)
  \/ SaveSession
  \/ NewContextManager

SpecContext == InitContext /\ [][NextContext]_vars

----------------------------------------------------------------------------
(* The bridge on its own: /run requests served one after the other.        *)

InitBridge ==
  /\ PipelineInit /\ claude_enabled = FALSE
  /\ DetIdle /\ WsIdle /\ LmIdle /\ CtxIdle /\ AcIdle /\ MmIdle /\ ExIdle /\ TsIdle /\ CqIdle /\ FpIdle /\ FtIdle
  /\ BrIdle

RunRequest(req) ==
  LET resp == handle_run_request(req) IN
  /\ Len(br_served) < MaxRequests
  /\ br_served' = Append(br_served, [request |-> req, response |-> resp])
  /\ br_temp_file' = IF resp.executed THEN <<req>> ELSE br_temp_file
  /\ br_log_lines' = IF resp.logged THEN br_log_lines + 1 ELSE br_log_lines
  /\ UNCHANGED brRest

NextBridge == \E req \in Requests : RunRequest(req)

SpecBridge == InitBridge /\ [][NextBridge]_vars

----------------------------------------------------------------------------
(* The acceleration manager on its own: one assign_device call, then one   *)
(* run_inference call followed through its fallback recursion.             *)

InitAccel ==
  /\ PipelineInit /\ claude_enabled = FALSE
  /\ DetIdle /\ WsIdle /\ LmIdle /\ CtxIdle /\ BrIdle /\ MmIdle /\ ExIdle /\ TsIdle /\ CqIdle /\ FpIdle /\ FtIdle
  /\ ac_env \in AccelEnvs
  /\ ac_pc = "idle"
  /\ ac_assigned = "None"
  /\ ac_device = "None"
  /\ ac_stack = <<>>
  /\ ac_attempts = <<>>
  /\ ac_result = NoInferenceResult

AssignDevice ==
  /\ ac_pc = "idle"
  /\ ac_assigned' = assign_device(ac_env, ac_env.preferred)
  /\ ac_pc' = "assigned"
  /\ UNCHANGED <<ac_env, ac_device, ac_stack, ac_attempts, ac_result>>
  /\ UNCHANGED acRest

\* run_inference entered from outside: device_hint or assign_device(auto)
StartInference(device_hint) ==
  LET device == IF device_hint # "None" THEN device_hint
                ELSE assign_device(ac_env, "auto") IN
  /\ ac_pc = "assigned"
  /\ ac_device' = device
  /\ ac_attempts' = <<device>>
  /\ ac_pc' = "run"
  /\ UNCHANGED <<ac_env, ac_assigned, ac_stack, ac_result>>
  /\ UNCHANGED acRest

\* the body of run_inference for ac_device; engine_ok: the engine exists,
\* exits 0 and prints output.  A success is returned through every
\* fallback_inference in progress; a failure calls fallback_inference with
\* diagnostics naming only this call's device
RunOnDevice(engine_ok) ==
  /\ ac_pc = "run"
  /\ IF engine_ok /\ ac_device # "npu"
     THEN /\ ac_result' = InferenceResult(TRUE, ac_device, "None")
          /\ ac_pc' = "done"
          /\ ac_stack' = <<>>
     ELSE /\ ac_stack' = Append(ac_stack, [chosen |-> ac_device, i |-> 0])
          /\ ac_pc' = "fallback"
          /\ UNCHANGED ac_result
  /\ UNCHANGED <<ac_env, ac_assigned, ac_device, ac_attempts>>
  /\ UNCHANGED acRest

\* one turn of the loop of the innermost fallback_inference
FallbackStep ==
  LET top == ac_stack[Len(ac_stack)]
      ranked == ac_env.ranked
      candidates == {j \in (top.i + 1)..Len(ranked) : ranked[j] # top.chosen}
      j == CHOOSE c \in candidates : \A d \in candidates : c <= d
      outer == SubSeq(ac_stack, 1, Len(ac_stack) - 1) IN
  /\ ac_pc = "fallback"
  /\ IF candidates = {}
     THEN \* "all devices failed" goes back to the caller of run_inference
          /\ ac_stack' = outer
          /\ ac_pc' = IF outer = <<>> THEN "done" ELSE "fallback"
          /\ ac_result' = IF outer = <<>>
                          THEN InferenceResult(FALSE, "none", "None")
                          ELSE ac_result
          /\ UNCHANGED <<ac_device, ac_attempts>>
     ELSE IF Len(ac_stack) >= MaxDepth
     THEN /\ ac_result' = InferenceResult(FALSE, "None", "RecursionError")
          /\ ac_pc' = "done"
          /\ ac_stack' = <<>>
          /\ UNCHANGED <<ac_device, ac_attempts>>
     ELSE /\ ac_stack' = [ac_stack EXCEPT ![Len(ac_stack)].i = j]
          /\ ac_device' = ranked[j]
          /\ ac_attempts' = Append(ac_attempts, ranked[j])
          /\ ac_pc' = "run"
          /\ UNCHANGED ac_result
  /\ UNCHANGED <<ac_env, ac_assigned>>
  /\ UNCHANGED acRest

NextAccel ==
  \/ AssignDevice
  \/ \E device_hint \in {"None", "cpu", "gpu", "npu"} : StartInference(device_hint)
  \/ \E engine_ok \in BOOLEAN : RunOnDevice(engine_ok)
  \/ FallbackStep

SpecAccel == InitAccel /\ [][NextAccel]_vars

----------------------------------------------------------------------------
(* MemoryManager on its own: interactions are added and saved; the         *)
(* process may be killed and started again, and memory_file may be read,   *)
(* at any point of a save.                                                 *)

InitMemory ==
  /\ PipelineInit /\ claude_enabled = FALSE
  /\ DetIdle /\ WsIdle /\ LmIdle /\ CtxIdle /\ BrIdle /\ AcIdle /\ ExIdle /\ TsIdle /\ CqIdle /\ FpIdle /\ FtIdle
  /\ MmIdle

\* add_interaction up to the open(self.memory_file, 'w') of save, which
\* creates the file or cuts it to length zero
SaveOpen ==
  LET appended == Append(mm_conversations, mm_added + 1)
      kept == IF Len(appended) > MaxConversations
              THEN LastN(appended, MaxConversations) ELSE appended IN
  /\ mm_pc = "idle"
  /\ mm_added < MaxWrites
  /\ mm_added' = mm_added + 1
  /\ mm_conversations' = kept
  /\ mm_previous' = mm_file.chunks
  /\ mm_file' = MemFile(TRUE, <<>>)
  /\ mm_pc' = "writing"
  /\ UNCHANGED <<mm_crashes, mm_read>>
  /\ UNCHANGED mmRest

\* json.dump writes the next chunk; after the last one the file is closed
\* and add_interaction returns
WriteChunk ==
  LET document == dump_chunks(mm_conversations)
      written == Len(mm_file.chunks) IN
  /\ mm_pc = "writing"
  /\ mm_file' = MemFile(TRUE, Append(mm_file.chunks, document[written + 1]))
  /\ mm_pc' = IF written + 1 = Len(document) THEN "idle" ELSE "writing"
  /\ UNCHANGED <<mm_conversations, mm_previous, mm_added, mm_crashes, mm_read>>
  /\ UNCHANGED mmRest

\* the process is killed and started again: __init__ calls load
Crash ==
  /\ mm_crashes < MaxCrashes
  /\ mm_crashes' = mm_crashes + 1
  /\ mm_pc' = "idle"
  /\ mm_conversations' = load(mm_file)
  /\ mm_read' = IF mm_file.exists
                THEN ReadOf(mm_file.chunks, mm_previous, dump_chunks(mm_conversations))
                ELSE mm_read
  /\ UNCHANGED <<mm_file, mm_previous, mm_added>>
  /\ UNCHANGED mmRest

\* another reader opens memory_file and reads it to the end
ConcurrentRead ==
  /\ mm_file.exists
  /\ mm_read' = ReadOf(mm_file.chunks, mm_previous, dump_chunks(mm_conversations))
  /\ UNCHANGED <<mm_conversations, mm_file, mm_pc, mm_previous, mm_added,
                 mm_crashes>>
  /\ UNCHANGED mmRest

NextMemory ==
  \/ SaveOpen
  \/ WriteChunk
  \/ Crash
  \/ ConcurrentRead

SpecMemory == InitMemory /\ [][NextMemory]_vars

----------------------------------------------------------------------------
(* Code executions in flight together: Flask serves each /run request on a *)
(* thread of its own while the pipeline thread may call CodeExecutor.      *)

InitExec ==
  /\ PipelineInit /\ claude_enabled = FALSE
  /\ DetIdle /\ WsIdle /\ LmIdle /\ CtxIdle /\ BrIdle /\ AcIdle /\ MmIdle /\ TsIdle /\ CqIdle /\ FpIdle /\ FtIdle
  /\ ExIdle

\* with open(self.temp_file, 'w') as f: f.write(code)
WriteCode(c) ==
  /\ ex_pc[c.id] = "idle"
  /\ ex_files' = [ex_files EXCEPT ![resolve(<<>>, temp_file)] = c.id]
  /\ ex_pc' = [ex_pc EXCEPT ![c.id] = "written"]
  /\ UNCHANGED ex_output
  /\ UNCHANGED exRest

\* subprocess.run(['python', self.temp_file], cwd=...) and the return of
\* its output to the caller
RunCode(c) ==
  /\ ex_pc[c.id] = "written"
  /\ ex_output' = [ex_output EXCEPT
                     ![c.id] = python(ex_files, resolve(child_cwd(c.via), temp_file))]
  /\ ex_pc' = [ex_pc EXCEPT ![c.id] = "returned"]
  /\ UNCHANGED ex_files
  /\ UNCHANGED exRest

\* the caller comes back with a further execution
NextCall(c) ==
  /\ ex_pc[c.id] = "returned"
  /\ ex_pc' = [ex_pc EXCEPT ![c.id] = "idle"]
  /\ UNCHANGED <<ex_files, ex_output>>
  /\ UNCHANGED exRest

NextExec ==
  \/ \E c \in Callers : WriteCode(c)
  \/ \E c \in Callers : RunCode(c)
  \/ \E c \in Callers : NextCall(c)

SpecExec == InitExec /\ [][NextExec]_vars

----------------------------------------------------------------------------
(* TimeSync on its own: start_sync and stop_sync are called at any time,   *)
(* the refresher threads run _sync_loop, and a reader calls                *)
(* get_temporal_metadata.  Threads interleave between attribute accesses.  *)

InitTimeSync ==
  /\ PipelineInit /\ claude_enabled = FALSE
  /\ DetIdle /\ WsIdle /\ LmIdle /\ CtxIdle /\ BrIdle /\ AcIdle /\ MmIdle /\ ExIdle /\ CqIdle /\ FpIdle /\ FtIdle
  /\ TsIdle

Tick ==
  /\ ts_clock < MaxTicks
  /\ ts_clock' = ts_clock + 1
  /\ UNCHANGED <<ts_state, ts_is_running, ts_threads, ts_reader, ts_got,
                 ts_metadata, ts_reads, ts_state_file>>
  /\ UNCHANGED tsRest

\* start_sync: a new thread unless is_running is set
start_sync ==
  /\ Len(ts_threads) < MaxStarts
  /\ IF ~ts_is_running
     THEN /\ ts_is_running' = TRUE
          /\ ts_threads' = Append(ts_threads, Thread("check", 0))
     ELSE UNCHANGED <<ts_is_running, ts_threads>>
  /\ UNCHANGED <<ts_clock, ts_state, ts_reader, ts_got, ts_metadata, ts_reads,
                 ts_state_file>>
  /\ UNCHANGED tsRest

\* stop_sync: clears the flag and joins self.sync_thread, the thread
\* started last, for two seconds: a thread about to test the flag ends
\* within the join, one inside time.sleep(sync_interval) or _update_time
\* is left behind when the join times out
stop_sync ==
  LET sync_thread == Len(ts_threads) IN
  /\ ts_is_running
  /\ ts_is_running' = FALSE
  /\ ts_threads' = IF sync_thread > 0 /\ ts_threads[sync_thread].at = "check"
                    THEN [ts_threads EXCEPT ![sync_thread].at = "exited"]
                    ELSE ts_threads
  /\ UNCHANGED <<ts_clock, ts_state, ts_reader, ts_got,
                 ts_metadata, ts_reads, ts_state_file>>
  /\ UNCHANGED tsRest

\* _sync_loop: `while self.is_running:` then time.sleep(sync_interval)
LoopCheck(t) ==
  /\ ts_threads[t].at = "check"
  /\ ts_threads' = [ts_threads EXCEPT
                      ![t].at = IF ts_is_running THEN "sleeping" ELSE "exited"]
  /\ UNCHANGED <<ts_clock, ts_state, ts_is_running, ts_reader, ts_got,
                 ts_metadata, ts_reads, ts_state_file>>
  /\ UNCHANGED tsRest

\* the sleep ends: now = datetime.now(); self.current_datetime = ...
Wake(t) ==
  /\ ts_threads[t].at = "sleeping"
  /\ ts_threads' = [ts_threads EXCEPT ![t] = Thread("set_date", ts_clock)]
  /\ ts_state' = [ts_state EXCEPT !.current_datetime = strftime(ts_clock)]
  /\ UNCHANGED <<ts_clock, ts_is_running, ts_reader, ts_got, ts_metadata,
                 ts_reads, ts_state_file>>
  /\ UNCHANGED tsRest

\* self.current_date = now.date()
SetDate(t) ==
  /\ ts_threads[t].at = "set_date"
  /\ ts_threads' = [ts_threads EXCEPT ![t].at = "set_sync"]
  /\ ts_state' = [ts_state EXCEPT !.current_date = date(ts_threads[t].now)]
  /\ UNCHANGED <<ts_clock, ts_is_running, ts_reader, ts_got, ts_metadata,
                 ts_reads, ts_state_file>>
  /\ UNCHANGED tsRest

\* self.last_sync = self.current_datetime, then _save_state
SetSync(t) ==
  /\ ts_threads[t].at = "set_sync"
  /\ ts_threads' = [ts_threads EXCEPT ![t].at = "check"]
  /\ ts_state' = [ts_state EXCEPT !.last_sync = ts_state.current_datetime]
  /\ ts_state_file' = [last_sync |-> ts_state.current_datetime,
                       current_datetime |-> ts_state.current_datetime]
  /\ UNCHANGED <<ts_clock, ts_is_running, ts_reader, ts_got, ts_metadata,
                 ts_reads>>
  /\ UNCHANGED tsRest

\* get_temporal_metadata begins with its own _update_time
ReaderUpdate ==
  /\ ts_reader.at \in {"idle", "set_date", "set_sync"}
  /\ ts_reader.at = "idle" => ts_reads < MaxReads
  /\ ts_reads' = IF ts_reader.at = "idle" THEN ts_reads + 1 ELSE ts_reads
  /\ ts_reader' =
       CASE ts_reader.at = "idle"     -> Thread("set_date", ts_clock)
         [] ts_reader.at = "set_date" -> Thread("set_sync", ts_reader.now)
         [] ts_reader.at = "set_sync" -> Thread("get_datetime", ts_reader.now)
  /\ ts_state' =
       CASE ts_reader.at = "idle" ->
              [ts_state EXCEPT !.current_datetime = strftime(ts_clock)]
         [] ts_reader.at = "set_date" ->
              [ts_state EXCEPT !.current_date = date(ts_reader.now)]
         [] ts_reader.at = "set_sync" ->
              [ts_state EXCEPT !.last_sync = ts_state.current_datetime]
  /\ UNCHANGED <<ts_clock, ts_is_running, ts_threads, ts_got, ts_metadata,
                 ts_state_file>>
  /\ UNCHANGED tsRest

\* the dict literal reads self.current_datetime, self.current_date and
\* self.last_sync one after the other and is returned
ReaderGet ==
  /\ ts_reader.at \in {"get_datetime", "get_date", "get_sync"}
  /\ ts_got' =
       CASE ts_reader.at = "get_datetime" ->
              [ts_got EXCEPT !.current_datetime = ts_state.current_datetime]
         [] ts_reader.at = "get_date" ->
              [ts_got EXCEPT !.current_date = ts_state.current_date]
         [] ts_reader.at = "get_sync" ->
              [ts_got EXCEPT !.last_sync = ts_state.last_sync]
  /\ ts_reader' =
       CASE ts_reader.at = "get_datetime" -> Thread("get_date", ts_reader.now)
         [] ts_reader.at = "get_date"     -> Thread("get_sync", ts_reader.now)
         [] ts_reader.at = "get_sync"     -> Thread("idle", 0)
  /\ ts_metadata' = IF ts_reader.at = "get_sync"
                    THEN [done |-> TRUE, value |-> ts_got']
                    ELSE ts_metadata
  /\ UNCHANGED <<ts_clock, ts_state, ts_is_running, ts_threads, ts_reads,
                 ts_state_file>>
  /\ UNCHANGED tsRest

NextTimeSync ==
  \/ Tick
  \/ start_sync
  \/ stop_sync
  \/ \E t \in DOMAIN ts_threads : LoopCheck(t)
  \/ \E t \in DOMAIN ts_threads : Wake(t)
  \/ \E t \in DOMAIN ts_threads : SetDate(t)
  \/ \E t \in DOMAIN ts_threads : SetSync(t)
  \/ ReaderUpdate
  \/ ReaderGet

SpecTimeSync == InitTimeSync /\ [][NextTimeSync]_vars

----------------------------------------------------------------------------
(* The query classifier on its own, as test_temporal_query_detection       *)
(* drives it: one ReasoningEngine, a sequence of queries.                  *)

InitClassifier ==
  /\ PipelineInit /\ claude_enabled = FALSE
  /\ DetIdle /\ WsIdle /\ LmIdle /\ CtxIdle /\ BrIdle /\ AcIdle /\ MmIdle /\ ExIdle /\ TsIdle /\ FpIdle /\ FtIdle
  /\ cq_post_cutoff \in BOOLEAN
  /\ cq_log = <<>>

DetectTemporal(p) ==
  /\ Len(cq_log) < MaxQueries
  /\ cq_log' = Append(cq_log,
                 [query |-> p,
                  analysis |-> detect_temporal_uncertainty(p, cq_post_cutoff)])
  /\ UNCHANGED cq_post_cutoff
  /\ UNCHANGED cqRest

NextClassifier == \E p \in ClassifierQueries : DetectTemporal(p)

SpecClassifier == InitClassifier /\ [][NextClassifier]_vars

----------------------------------------------------------------------------
(* One line typed at the prompt of a fresh Genesis and taken, or not, by   *)
(* the feedback branch of process_input.                                   *)

InitFeedbackParse ==
  /\ PipelineInit /\ claude_enabled = FALSE
  /\ DetIdle /\ WsIdle /\ LmIdle /\ CtxIdle /\ BrIdle /\ AcIdle /\ MmIdle /\ ExIdle /\ TsIdle /\ CqIdle /\ FtIdle
  /\ fp_input \in InputLines
  /\ fp_call = NoFeedbackCall

\* lines 713-723, up to the call record_feedback(is_correct=..., note=...)
ParseFeedback ==
  LET r == parse_feedback(fp_input) IN
  /\ ~fp_call.done
  /\ fp_call' = [done |-> TRUE, taken |-> r.taken,
                 is_correct |-> r.taken /\ r.is_correct,
                 note |-> IF r.taken THEN r.note ELSE NoneV,
                 outcome |-> IF ~r.taken THEN "not_feedback"
                             ELSE record_feedback({"is_correct", "note"})]
  /\ UNCHANGED fp_input
  /\ UNCHANGED fpRest

NextFeedbackParse == ParseFeedback

SpecFeedbackParse == InitFeedbackParse /\ [][NextFeedbackParse]_vars

----------------------------------------------------------------------------
(* Prompts of every kind, each possibly followed by feedback on it.        *)

\* lines 726-735: FeedbackManager.add_feedback called with query =
\* self.last_user_query, response = self.last_response and source =
\* self.last_source, once process_input has returned from the last prompt
AddFeedbackForLast(is_correct) ==
  /\ pc = "idle" /\ Len(ft_passed) < MaxDirectives
  /\ last_user_query # "None" /\ ~Falsy(last_response)
  /\ source_weights' = add_feedback(source_weights, last_source, is_correct)
  /\ ft_passed' = Append(ft_passed,
                    [query |-> last_user_query, response |-> last_response,
                     source |-> last_source, is_correct |-> is_correct,
                     latest |-> cur])
  /\ UNCHANGED <<pc, question_counter, last_user_query, last_query_id,
                 last_response, last_source, claude_enabled, reasoning,
                 memory, cur, n_inputs, asked, log, fb_log>>
  /\ UNCHANGED <<detVars, wsVars, lmVars, ctxVars, brVars, acVars, mmVars, exVars, tsVars, cqVars, fpVars>>

NextFeedbackTarget ==
  \/ \E p \in Catalog : ControlDirective(p)
  \/ \E p \in Catalog : DirectCommand(p)
  \/ \E p \in Catalog : BeginQuestion(p)
  \/ \E is_post_cutoff \in BOOLEAN : Reason(is_post_cutoff)
  \/ UseCalculatedAnswer
  \/ \E o \in LlmOutcomes : CallLocalModel(o)
  \/ \E o \in WsOutcomes : WebSearchStep(o)
  \/ \E o \in PxOutcomes : PerplexityStep(o)
  \/ \E o \in ClaudeOutcomes : ClaudeStep(o)
  \/ Finalize
  \/ \E is_correct \in BOOLEAN : AddFeedbackForLast(is_correct)

SpecFeedbackTarget == Init /\ [][NextFeedbackTarget]_vars

----------------------------------------------------------------------------
(* Properties.                                                             *)

\* the call in flight, or the last one, is a question that went through the
\* reasoning engine
IsQuestion(c) == c.qid # 0

\* process_input has returned from a question
Done == pc = "idle" /\ IsQuestion(cur) /\ cur.outcome \in {"completed", "uncertain_return"}

\* the controller is past the uncertainty gate of a question
PastGate == IsQuestion(cur) /\ pc \in {"websearch", "perplexity", "claude", "finalize", "idle"}

\* what a fresh engine computes for the text t alone
AnswerInIsolation(t) ==
  LET p == PromptOf(t) IN
  get_calculated_answer(
    generate_reasoning_trace(start_new_question(ReasoningInit, 1), p,
                             detect_problem_type(p)))

\* C1: once a prompt has begun under a question id different from the
\* previous one, get_calculated_answer() is None or the answer computed for
\* that prompt, never the answer of an earlier question.
Thm_C1_NoAnswerLeak ==
  LET a == get_calculated_answer(reasoning) IN
  /\ pc # "idle" =>
       /\ reasoning.current_question_id = cur.qid
       /\ cur.qid \in 1..Len(asked)
       /\ asked[cur.qid] = cur.user_input
  /\ a # NoneV =>
       /\ reasoning.current_question_id \in 1..Len(asked)
       /\ a = AnswerInIsolation(asked[reasoning.current_question_id])

\* a second question holds its own answer while the first question had a
\* different one
Wit_C1_SecondQuestionOwnAnswer ==
  /\ cur.qid = 2
  /\ get_calculated_answer(reasoning) # NoneV
  /\ AnswerInIsolation(asked[1]) # NoneV
  /\ AnswerInIsolation(asked[1]) # get_calculated_answer(reasoning)

\* C2: every distinct prompt (neither a retry nor a control directive) is
\* assigned a question id that differs from the id of every earlier prompt.
C2_EveryDistinctPromptGetsFreshId ==
  \A i \in DOMAIN log :
    (~IsRetry(PromptOf(log[i].typed)) /\ log[i].kind # "control") =>
       /\ log[i].qid # 0
       /\ \A j \in 1..(i - 1) : log[j].qid # log[i].qid

\* C3 as stated: a retry directive never creates a new question id, in
\* every reachable session state: it runs under the id of an earlier prompt
\* and the question counter is not incremented.
C3_RetryNeverCreatesId ==
  \A i \in DOMAIN log :
    IsRetry(PromptOf(log[i].typed)) =>
       /\ log[i].counter_after = log[i].counter_before
       /\ \E j \in 1..(i - 1) : log[j].qid # 0 /\ log[j].qid = log[i].qid

\* the last input before i that was recorded as the last query
IsRecordedQuery(e) == e.kind = "question" /\ ~IsRetry(PromptOf(e.typed))

\* C3 (amended): a retry directive that arrives while a last query is on
\* record never creates a new question id: it replays that query under its
\* question id and the question counter is not incremented.
Thm_C3_RetryReusesId ==
  \A i \in DOMAIN log :
    (IsRetry(PromptOf(log[i].typed)) /\ log[i].had_last) =>
       /\ log[i].counter_after = log[i].counter_before
       /\ \E j \in 1..(i - 1) :
            /\ IsRecordedQuery(log[j])
            /\ \A k \in (j + 1)..(i - 1) : ~IsRecordedQuery(log[k])
            /\ log[i].qid = log[j].qid
            /\ log[i].user_input = log[j].user_input

\* a retry of a recorded query has been processed to the end
Wit_C3_RetryProcessed ==
  /\ Done
  /\ Len(log) = 2
  /\ IsRetry(PromptOf(log[2].typed)) /\ log[2].had_last
  /\ log[2].qid = 1

\* what MathReasoner.detect_and_solve returned to _reason_math_problem for
\* the question in flight (NoSol before the reasoning step, and when the
\* prompt is not a math word problem)
SolverResult ==
  IF IsQuestion(cur) /\ cur.problem_type = "math_word_problem"
  THEN detect_and_solve(PromptOf(cur.user_input))
  ELSE NoSol

\* the solver's dict carries an answer value
HasAnswerValue(sol) == sol.keys \cap {"answer", "smaller_item"} # {}

\* the cascade was entered for the question in flight
CascadeEntered == pc = "websearch" \/ cur.contacted # <<>>

\* C4: whenever the solver produces a verified answer for a prompt, the
\* source is local_calculated and no fallback source is contacted.
C4_VerifiedAnswerIsFinal ==
  (PastGate /\ SolverResult # NoSol /\ SolverResult.verified
     /\ HasAnswerValue(SolverResult)) =>
       /\ cur.response_source = "local_calculated"
       /\ ~CascadeEntered

\* C5: for every prompt for which detect_and_solve returns a solution, of
\* any shape and with any answer value, the local LLM is not called.
C5_SolvedPromptSkipsLlm ==
  (PastGate /\ SolverResult # NoSol) => cur.llm_outcome = "none"

\* C6: a solver result with verified = false never short-circuits: the
\* local LLM and the gate run and the source is not local_calculated.
C6_UnverifiedNeverShortCircuits ==
  (PastGate /\ SolverResult # NoSol /\ ~SolverResult.verified) =>
       /\ cur.llm_outcome # "none"
       /\ ~cur.used_calculated_answer
       /\ cur.response_source # "local_calculated"

\* C7: for every time-sensitive prompt for which no symbolic answer is
\* used, the cascade is entered and WebSearch is the first source
\* contacted, whatever the confidence of the local response.
Thm_C7_TimeSensitiveEntersCascade ==
  (PastGate /\ cur.temporal.time_sensitive /\ ~cur.used_calculated_answer) =>
       /\ cur.should_fallback
       /\ pc # "websearch" =>
            /\ Len(cur.contacted) >= 1
            /\ cur.contacted[1].source = "websearch"

\* a time-sensitive prompt answered confidently by the local model has
\* gone through WebSearch
Wit_C7_ConfidentButTimeSensitive ==
  /\ Done
  /\ cur.temporal.time_sensitive /\ ~cur.temporal.temporal_uncertain
  /\ cur.llm_outcome = "stdout_answer"
  /\ Len(cur.contacted) >= 1 /\ cur.contacted[1].source = "websearch"

Rank(source) ==
  CASE source = "websearch"  -> 1
    [] source = "perplexity" -> 2
    [] source = "claude"     -> 3

\* C8: the sources are contacted only in the order WebSearch, Perplexity,
\* Claude, and no source is contacted after one has been accepted
\* (WebSearch: ok and confidence >= 0.5; the others: ok).
C8_OrderedAndStopsAtAccepted ==
  \A i, j \in DOMAIN cur.contacted :
    i < j =>
      /\ Rank(cur.contacted[i].source) < Rank(cur.contacted[j].source)
      /\ ~cur.contacted[i].accepted

\* C9: when the cascade was entered and no source was accepted, the
\* interaction is written to memory under the uncertain tag, with the
\* Claude step enabled or not.
C9_AllFailedIsStoredUncertain ==
  (Done /\ cur.contacted # <<>>
     /\ \A i \in DOMAIN cur.contacted : ~cur.contacted[i].accepted) =>
       /\ memory # <<>>
       /\ memory[Len(memory)].user = cur.user_input
       /\ memory[Len(memory)].uncertain

\* C10: whenever the local model call fails (spawn error, timeout or empty
\* output) the gate reports should_fallback = true and the cascade is
\* entered.
C10_FailedLlmTriggersCascade ==
  (PastGate /\ LlmFailed(cur.llm_outcome)) =>
       /\ cur.should_fallback
       /\ CascadeEntered

\* C11: after a #correct or #incorrect directive that follows an answered
\* prompt, the ledger's total count for the source that produced the answer
\* has grown by exactly one, and its success count by one iff the directive
\* was #correct, for every source label the pipeline assigns.
C11_FeedbackCountsForAnswerSource ==
  \A i \in DOMAIN fb_log :
    LET e == fb_log[i] IN
    e.follows_answer =>
      /\ e.source \in DOMAIN e.after
      /\ e.after[e.source].total_count = e.before[e.source].total_count + 1
      /\ e.after[e.source].success_count =
           e.before[e.source].success_count + (IF e.is_correct THEN 1 ELSE 0)

\* C12: after any sequence of add_feedback calls every source of the
\* ledger has 0 <= success_count <= total_count and
\* 0.4 <= base_confidence <= 0.95.
Thm_C12_LedgerBounds ==
  \A src \in DOMAIN source_weights :
    LET w == source_weights[src] IN
    /\ 0 <= w.success_count /\ w.success_count <= w.total_count
    /\ ClampLow <= w.base_confidence /\ w.base_confidence <= ClampHigh

\* a source has received a long mixed run of feedback
Wit_C12_LongMixedRun ==
  \E src \in DOMAIN source_weights :
    /\ source_weights[src].total_count >= 10
    /\ source_weights[src].success_count >= 3
    /\ source_weights[src].success_count < source_weights[src].total_count

\* ten feedback directives in a row, starting at i, all incorrect and all
\* passed to add_feedback
TenIncorrectFrom(i) ==
  /\ i + 9 <= Len(fb_log)
  /\ \A k \in i..(i + 9) : ~fb_log[k].is_correct /\ fb_log[k].recorded

\* C13: ten consecutive incorrect-feedback events for a source X leave X's
\* base_confidence strictly lower than before (inside the clamp) and X's
\* success count unchanged, for every source X that can answer a prompt.
C13_TenIncorrectLowerConfidence ==
  \A i \in DOMAIN fb_log :
    TenIncorrectFrom(i) =>
      LET X == fb_log[i].source
          before == fb_log[i].before
          after == fb_log[i + 9].after IN
      /\ X \in DOMAIN after
      /\ after[X].base_confidence < before[X].base_confidence
      /\ after[X].base_confidence >= ClampLow
      /\ after[X].success_count = before[X].success_count

\* the response under test is None, empty or whitespace only
IsBlank(response) == response = NoText \/ response.body \in ({""} \cup WhitespaceBodies)

\* C14: for an empty or whitespace-only response the detector returns
\* confidence exactly 0 and should_fallback = true, under the default
\* threshold.
Thm_C14_BlankResponseFallsBack ==
  (det_result.done /\ IsBlank(det_call.response)
     /\ det_call.override_threshold = NoneV) =>
       /\ det_result.confidence_score = 0
       /\ det_result.should_fallback

\* a whitespace-only response has been analysed under the default threshold
Wit_C14_WhitespaceAnalysed ==
  /\ det_result.done
  /\ det_call.response.body \in WhitespaceBodies
  /\ det_call.override_threshold = NoneV
  /\ det_result.should_fallback

\* call j is a search(q), use_cache = true, that comes within the TTL after
\* call i, a successful search(q) with use_cache = true
RepeatedWithinTtl(i, j) ==
  /\ i < j
  /\ ws_log[i].query = ws_log[j].query
  /\ ws_log[i].use_cache /\ ws_log[j].use_cache
  /\ ws_log[i].result.success
  /\ ws_log[j].time - ws_log[i].time <= TtlSeconds

\* C15 as stated: with use_cache = true, if search(q) succeeds and
\* search(q) is called again within the TTL, the second call returns the
\* answer of the first and submits no request to any source.
C15_SecondSearchServedFromCache ==
  \A i, j \in DOMAIN ws_log :
    (RepeatedWithinTtl(i, j) /\ j = i + 1) =>
       /\ ws_log[j].result.success
       /\ ws_log[j].result.answer = ws_log[i].result.answer
       /\ ws_log[j].result.requests = 0

\* C15 (amended): with use_cache = true, if search(q) queries the sources
\* and succeeds with a confidence of at least min_confidence (0.7), a
\* search(q) called next within the TTL returns the same answer and
\* confidence and submits no request to any source.
Thm_C15_ConfidentSearchServedFromCache ==
  \A i, j \in DOMAIN ws_log :
    (/\ RepeatedWithinTtl(i, j) /\ j = i + 1
     /\ ws_log[i].result.requests > 0
     /\ ws_log[i].result.confidence >= MinConfidence) =>
       /\ ws_log[j].result.success
       /\ ws_log[j].result.answer = ws_log[i].result.answer
       /\ ws_log[j].result.confidence = ws_log[i].result.confidence
       /\ ws_log[j].result.requests = 0

\* a confident search was repeated at the very end of the TTL and served
\* from the cache
Wit_C15_RepeatedAtTtlEdge ==
  /\ Len(ws_log) >= 2
  /\ RepeatedWithinTtl(1, 2)
  /\ ws_log[1].result.requests > 0
  /\ ws_log[1].result.confidence >= MinConfidence
  /\ ws_log[2].time - ws_log[1].time = TtlSeconds
  /\ ws_log[2].result.requests = 0

\* C16: search reports failure only if every source failed or returned
\* nothing: when at least one source returned results, search returns
\* success with those results, even if another source raises or has not
\* finished at the overall deadline.
C16_OneSourceIsEnough ==
  \A i \in DOMAIN ws_log :
    LET e == ws_log[i] IN
    (e.result.requests > 0
       /\ \E k \in 1..3 : e.scenario.outcome[k].kind = "results"
                          /\ e.scenario.outcome[k].n > 0) =>
         /\ ~e.result.raised
         /\ e.result.success
         /\ \A k \in 1..3 :
              (e.scenario.outcome[k].kind = "results" /\ e.scenario.outcome[k].n > 0) =>
                 \E g \in DOMAIN e.result.answer : e.result.answer[g][1] = SourceNames[k]

\* C17: after any number of add_conversation calls the long-term pool never
\* holds more than max_conversations conversations, and right after a prune
\* it holds at most 70% of max_conversations.
Thm_C17_PoolBounded ==
  /\ Len(lm_pool) <= max_conversations
  /\ Len(lm_file) <= max_conversations
  /\ \A i \in 1..Len(lm_hist) :
       Len(lm_hist[i].pool) * 10 <= max_conversations * KeepTenths
  /\ lm_last_op = "prune" =>
       Len(lm_pool) * 10 <= max_conversations * KeepTenths

\* a prune that found more than 70% of max_conversations and cut the pool,
\* after which further conversations were added up to the threshold
Wit_C17_PruneCutThePool ==
  /\ lm_hist # <<>>
  /\ Len(lm_hist[1].before) > Len(lm_hist[1].pool)
  /\ Len(lm_hist[1].before) * 10 > max_conversations * KeepTenths
  /\ lm_pc = "blocked" /\ lm_last_op = "add"
  /\ lm_added > Len(lm_hist[1].before)

\* C18: a prune that directly follows a prune leaves the pool, the
\* conversation file and the learning log as the first prune left them.
C18_PruneTwiceIsNoOp ==
  \A i \in 2..Len(lm_hist) :
    lm_hist[i].in_a_row =>
      /\ lm_hist[i].pool = lm_hist[i - 1].pool
      /\ lm_hist[i].file = lm_hist[i - 1].file
      /\ lm_hist[i].learning = lm_hist[i - 1].learning

Thm_C20_NonLoopbackNeverExecutes ==
  /\ \A i \in 1..Len(br_served) :
       br_served[i].request.remote_addr \notin LoopbackPeers =>
         /\ br_served[i].response.status = 403
         /\ ~br_served[i].response.executed
         /\ ~br_served[i].response.logged
         /\ br_served[i].response.examined = <<"peer">>
  /\ \A i \in 1..Len(br_temp_file) :
       br_temp_file[i].remote_addr \in LoopbackPeers

\* a remote peer sends the right key and harmless code after a local
\* request was executed
Wit_C20_RemoteWithValidKeyRefused ==
  /\ Len(br_served) = 2
  /\ br_served[1].response.status = 200
  /\ br_served[2].request.remote_addr = "203.0.113.9"
  /\ br_served[2].request.key = ApiKey
  /\ br_served[2].request.body = "safe_code"
  /\ br_served[2].response.status = 403

\* C21: assign_device(model_path, "cpu") returns "cpu" for every model path
\* and every profile state.
Thm_C21_CpuPreferenceReturnsCpu ==
  (ac_pc # "idle" /\ ac_env.preferred = "cpu") => ac_assigned = "cpu"

\* "cpu" asked for an int8 model while an accelerator ranks first and
\* neither the battery nor the temperature forces the CPU
Wit_C21_CpuAskedWhileNpuRanksFirst ==
  /\ ac_pc = "assigned"
  /\ ac_env.preferred = "cpu"
  /\ ac_env.ranked[1] = "npu"
  /\ ac_env.model_path = "models/test_int8.gguf"
  /\ ac_env.battery >= BatteryThresholdPct /\ ac_env.temp <= TempThresholdC
  /\ ac_assigned = "cpu"

\* C22: with the battery below 20% or the CPU above 70 degrees,
\* assign_device returns "cpu" whatever the preference and the model path.
C22_LowBatteryOrHotForcesCpu ==
  (/\ ac_pc # "idle"
   /\ ac_env.battery < BatteryThresholdPct \/ ac_env.temp > TempThresholdC)
  => ac_assigned = "cpu"

\* C29: run_inference returns instead of raising, and no device is tried
\* more than once by the fallback walk.
C29_InferenceReturnsAfterOneWalk ==
  /\ ac_result.raised = "None"
  /\ \A d \in {"cpu", "gpu", "npu"} :
       Cardinality({i \in 2..Len(ac_attempts) : ac_attempts[i] = d}) <= 1

\* C25: start_new_question(id) clears the stored calculated answer, the
\* stored solution and the current trace when id differs from the current
\* question id, and changes nothing of the engine when id equals it.
Thm_C25_StartNewQuestionFrame ==
  [][(pc = "idle" /\ pc' = "reason") =>
       IF reasoning.current_question_id # cur'.qid
       THEN /\ reasoning'.last_math_answer = NoneV
            /\ reasoning'.last_math_solution = NoSol
            /\ reasoning'.current_trace = NoTrace
            /\ reasoning'.current_question_id = cur'.qid
       ELSE reasoning' = reasoning]_vars

\* a retry has just called start_new_question with the id of the question
\* whose calculated answer and solved trace are stored
Wit_C25_RetryKeepsStoredAnswer ==
  /\ pc = "reason"
  /\ cur.is_retry
  /\ cur.qid = reasoning.current_question_id
  /\ reasoning.last_math_answer # NoneV
  /\ reasoning.last_math_solution # NoSol
  /\ reasoning.current_trace # NoTrace

\* C26: a #correct or #incorrect directive is handled as a control
\* directive also when its note holds a retry phrase: it is not replaced
\* by the last prompt and no prompt is re-run.
C26_FeedbackWithRetryPhraseIsControl ==
  \A i \in DOMAIN log :
    IsFeedback(PromptOf(log[i].typed)) =>
      /\ log[i].kind = "control"
      /\ log[i].user_input = log[i].typed

\* C23: no exception raised while a prompt is handled leaves
\* process_input: every input that was taken up ends with process_input
\* returning.
C23_NoExceptionEscapesProcessInput == cur.outcome # "raised"

\* C27: add_conversation always returns, also the call that brings the
\* conversation count to the prune threshold: after it the caller is not
\* waiting for the memory lock and the conversations are saved.
C27_AddConversationAlwaysReturns ==
  lm_last_op = "add" => (lm_pc = "idle" /\ lm_file = lm_pool)

\* C28: add_feedback_note always returns, with the note in the learning
\* log and both the conversation memory and the learning log saved.
C28_AddFeedbackNoteAlwaysReturns ==
  lm_last_op = "feedback_note" =>
    /\ lm_pc = "idle"
    /\ lm_file = lm_pool
    /\ lm_learning_file = lm_learning

\* C30: for every completed prompt the recorded source label names the
\* component whose text is the final answer, whatever the sources returned.
C30_SourceLabelNamesAnswerAuthor ==
  (pc = "idle" /\ IsQuestion(cur) /\ cur.outcome = "completed") =>
     last_source = last_response.author

\* C24: a crash or a concurrent read at any point of a persistence write
\* never exposes a partially written file: the reader gets the complete
\* previous document or the complete new one.
C24_ReaderSeesWholeDocument ==
  mm_read.done =>
    /\ IsDocument(mm_read.chunks)
    /\ mm_read.chunks \in {mm_read.previous, mm_read.new}

\* C37: the code of a /run request is executed only if the request came
\* from a loopback peer with the valid key and holds no denylist pattern; a
\* loopback request with a bad or missing key is answered 401 whatever its
\* body, and a loopback request with the valid key and a denylist match is
\* answered 400, both without executing or logging anything.
Thm_C37_KeyThenDenylistGateExecution ==
  \A i \in 1..Len(br_served) :
    LET req == br_served[i].request
        resp == br_served[i].response IN
    /\ resp.executed =>
         /\ req.remote_addr \in LoopbackPeers
         /\ req.key = ApiKey
         /\ req.body = "safe_code"
    /\ (req.remote_addr \in {"127.0.0.1", "::1"} /\ req.key # ApiKey) =>
         /\ resp.status = 401 /\ ~resp.executed /\ ~resp.logged
    /\ (req.remote_addr \in {"127.0.0.1", "::1"} /\ req.key = ApiKey
          /\ req.body = "unsafe_code") =>
         /\ resp.status = 400 /\ ~resp.executed /\ ~resp.logged

\* a local request without a key and with unsafe code was refused 401, then
\* a local request with the key and unsafe code was refused 400
Wit_C37_UnsafeCodeRefusedTwice ==
  /\ Len(br_served) = 2
  /\ br_served[1].request.remote_addr = "127.0.0.1"
  /\ br_served[1].request.key = ""
  /\ br_served[1].request.body = "unsafe_code"
  /\ br_served[1].response.status = 401
  /\ br_served[2].request.remote_addr = "::1"
  /\ br_served[2].request.key = ApiKey
  /\ br_served[2].request.body = "unsafe_code"
  /\ br_served[2].response.status = 400
  /\ br_temp_file = <<>>

\* C37 as stated: every bad or missing key is answered 401 and every
\* denylist match 400, and nothing is executed without the valid key and
\* clean code.
C37_BadKey401Denylist400 ==
  \A i \in 1..Len(br_served) :
    LET req == br_served[i].request
        resp == br_served[i].response IN
    /\ resp.executed => (req.key = ApiKey /\ req.body = "safe_code")
    /\ req.key # ApiKey => (resp.status = 401 /\ ~resp.executed)
    /\ req.body = "unsafe_code" => (resp.status = 400 /\ ~resp.executed)

\* C34: with several code executions in flight, the output returned to
\* each caller is the output of running that caller's own code.
C34_OutputIsOfOwnCode ==
  \A c \in CallerIds :
    ex_pc[c] = "returned" => ex_output[c] = [ran |-> c, error |-> "none"]

\* C35: under any interleaving of the refresher and a reader, the values
\* one read returns (current_datetime, current_date, last_sync) all come
\* from the same clock sample.
C35_ReadIsOneSample ==
  ts_metadata.done =>
    \E now \in 0..MaxTicks : ts_metadata.value = SnapshotOf(now)

\* C36: after any sequence of start_sync and stop_sync calls at most one
\* refresher thread is running.
C36_AtMostOneRefresher ==
  Cardinality({t \in DOMAIN ts_threads : ts_threads[t].at # "exited"}) <= 1

\* C38: a response with k >= 1 uncertainty-phrase matches and no other
\* trigger gets the confidence 1 - min(0.4 + 0.1*(k - 1), 0.6), in
\* hundredths: one match deducts 40, each further match 10 more, at most 60.
C38_FirstMatchDeductsFourTenths ==
  LET f == Features(det_call.response.body)
      k == f.uncertain_match_count IN
  (/\ det_result.done
   /\ ~Falsy(det_call.response) /\ strip(det_call.response.body) # ""
   /\ k >= 1
   /\ ~f.is_too_short /\ ~f.has_excessive_repetition
   /\ ~f.has_error_indicators /\ ~f.code_quality_issues) =>
     det_result.confidence_score = 100 - Min(40 + 10 * (k - 1), 60)

\* C39: a prompt is classified time_sensitive only if it contains a
\* temporal keyword, or a "who is"/"what is" question together with a
\* now/currently/today/president cue; "What is 2 + 2?" and "Explain Python
\* decorators" are not time_sensitive.
C39_TimeSensitiveNeedsTemporalCue ==
  \A i \in 1..Len(cq_log) :
    LET p == cq_log[i].query IN
    /\ cq_log[i].analysis.time_sensitive =>
         \/ p.words \cap temporal_keywords # {}
         \/ /\ p.words \cap {"who is", "what is"} # {}
            /\ p.words \cap {"now", "currently", "today", "president"} # {}
    /\ p \in {pTwoPlusTwo, pDecorators} => ~cq_log[i].analysis.time_sensitive

\* C40: a line is a feedback directive iff, case-insensitively, it equals
\* #correct or #incorrect or starts with one of them followed by a space,
\* "-" or an em dash (U+2014); a directive led by #correct is recorded as correct
\* and one led by #incorrect as incorrect, whatever follows.
C40_ParsingFollowsLeadingCommand ==
  LET l == lower(fp_input)
      led(command) ==
        \/ l = <<command>>
        \/ Len(l) >= 2 /\ l[1] = command /\ l[2] \in {" ", "-", "em_dash"}
  IN fp_call.done =>
       /\ fp_call.taken <=> (led("#correct") \/ led("#incorrect"))
       /\ led("#correct") => fp_call.is_correct
       /\ led("#incorrect") => ~fp_call.is_correct

C33_RetryReplaysLatestPrompt ==
  \A i \in 1..Len(log) :
    LET typed == PromptOf(log[i].typed)
        prompts == {j \in 1..(i - 1) : log[j].kind \in {"direct", "question"}}
    IN (IsRetry(typed) /\ ~IsFeedback(typed) /\ prompts # {}) =>
         LET latest == CHOOSE j \in prompts : \A k \in prompts : k <= j
         IN log[i].user_input = log[latest].user_input

====
